---- MODULE Spec2Model ----
(***************************************************************************)
(* A model of package sign4 (AWS Signature Version 4 request signing) of   *)
(* p-lewis/awsgolang: the ReusableRequest snapshot, its serialisation, the *)
(* canonical request, the string to sign, the signing key and Sign.        *)
(*                                                                         *)
(* Text is a sequence of tokens.  A token is a TLA+ string: a one          *)
(* character token stands for that character; a longer token is an opaque  *)
(* word that holds no separator, no whitespace and no quote (a header      *)
(* name, a host name, a digest).  "\r\n" is the one token that stands for  *)
(* the two bytes CR LF.                                                    *)
(*                                                                         *)
(* SHA-256 and HMAC-SHA256 are modelled as free (collision free)           *)
(* constructors over the flattened text they are applied to.               *)
(***************************************************************************)
EXTENDS Integers, Sequences, FiniteSets, TLC

(***************************************************************************)
(* Bounds of the model.                                                    *)
(***************************************************************************)
\* the wall clock runs from 1 to MaxClock
MaxClock == 2
\* Sign is called at most MaxSigns times in one behaviour
MaxSigns == 2
\* Write/WriteProxy are called at most MaxWrites times in one behaviour
MaxWrites == 2
\* a body source holds at most MaxBody tokens
MaxBody == 2
\* the model's day has TicksPerDay clock ticks
TicksPerDay == 2
\* a header value handed to trimAll holds at most MaxVal characters
MaxVal == 4

(***************************************************************************)
(* Text helpers (package strings).                                         *)
(***************************************************************************)
CRLF == "\r\n"

RECURSIVE Flat(_)
\* the text as one string: what is fed to a hash, or compared as a whole
Flat(s) == IF s = <<>> THEN "" ELSE Head(s) \o Flat(Tail(s))

RECURSIVE IndexFrom(_, _, _)
\* least index >= i of token sep in s, 0 when there is none
IndexFrom(s, sep, i) ==
  IF i > Len(s) THEN 0
  ELSE IF s[i] = sep THEN i
  ELSE IndexFrom(s, sep, i + 1)

Index(s, sep) == IndexFrom(s, sep, 1)

Cut(s, a, b) == IF a > b THEN <<>> ELSE SubSeq(s, a, b)

RECURSIVE Split(_, _)
\* strings.Split(s, sep): always at least one piece
Split(s, sep) ==
  LET k == Index(s, sep)
  IN  IF k = 0 THEN <<s>>
      ELSE <<Cut(s, 1, k - 1)>> \o Split(Cut(s, k + 1, Len(s)), sep)

\* strings.SplitN(s, sep, 2)
SplitN2(s, sep) ==
  LET k == Index(s, sep)
  IN  IF k = 0 THEN <<s>>
      ELSE <<Cut(s, 1, k - 1), Cut(s, k + 1, Len(s))>>

RECURSIVE Join(_, _)
\* strings.Join(parts, sep), sep a text
Join(parts, sep) ==
  IF parts = <<>> THEN <<>>
  ELSE IF Len(parts) = 1 THEN parts[1]
  ELSE parts[1] \o sep \o Join(Tail(parts), sep)

HasSuffix(s, c) == Len(s) > 0 /\ s[Len(s)] = c

\* the characters and the words the model orders, in byte order
Alphabet ==
  << " ", "\"", "%", "&", "+", "-", ".", "/",
     "0", "1", "2", "3", "4", "5", "6", "7", "8", "9",
     ":", ";", "=", "?",
     "A", "Authorization", "B", "C", "Content-Length", "D", "Date", "E", "F",
     "G", "H", "Host", "I", "J", "K", "L", "M",
     "N", "O", "P", "Q", "R", "S", "T", "Trailer", "Transfer-Encoding",
     "U", "User-Agent", "V", "W", "X", "X-Amz-Date", "Y", "Z", "Zoo",
     "_",
     "a", "aha", "authorization", "b", "c", "content-length", "d", "date",
     "e", "f", "foo", "g", "h", "host", "i", "j", "k", "l", "m",
     "n", "o", "p", "q", "r", "s", "t", "trailer", "transfer-encoding",
     "u", "user-agent", "v", "w", "x", "x-amz-date", "y", "z",
     "~" >>

\* the rank of each listed token
Rank ==
  LET rankIn(A) == [c \in {A[i] : i \in DOMAIN A} |-> CHOOSE i \in DOMAIN A : A[i] = c]
  IN  rankIn(Alphabet)

\* the rank of a token in byte order; an unlisted word ranks after all
Code(c) ==
  LET rankOf(rk) == IF c \in DOMAIN rk THEN rk[c] ELSE Cardinality(DOMAIN rk) + 1
  IN  rankOf(Rank)

RECURSIVE LessStr(_, _)
\* a < b as Go compares strings (byte-wise, a proper prefix is smaller)
LessStr(a, b) ==
  IF b = <<>> THEN FALSE
  ELSE IF a = <<>> THEN TRUE
  ELSE IF Head(a) = Head(b) THEN LessStr(Tail(a), Tail(b))
  ELSE Code(Head(a)) < Code(Head(b))

RECURSIVE Insert(_, _)
Insert(x, sorted) ==
  IF sorted = <<>> THEN <<x>>
  ELSE IF LessStr(x, Head(sorted)) THEN <<x>> \o sorted
  ELSE <<Head(sorted)>> \o Insert(x, Tail(sorted))

RECURSIVE SortStrings(_)
\* sort.Strings
SortStrings(ss) ==
  IF ss = <<>> THEN <<>> ELSE Insert(Head(ss), SortStrings(Tail(ss)))

\* the cased tokens: each as <<upper case, lower case, the spelling of
\* textproto.CanonicalMIMEHeaderKey>>
Cases ==
  << <<"A", "a", "A">>, <<"B", "b", "B">>, <<"C", "c", "C">>, <<"D", "d", "D">>,
     <<"E", "e", "E">>, <<"F", "f", "F">>, <<"G", "g", "G">>, <<"H", "h", "H">>,
     <<"I", "i", "I">>, <<"J", "j", "J">>, <<"K", "k", "K">>, <<"L", "l", "L">>,
     <<"M", "m", "M">>, <<"N", "n", "N">>, <<"O", "o", "O">>, <<"P", "p", "P">>,
     <<"Q", "q", "Q">>, <<"R", "r", "R">>, <<"S", "s", "S">>, <<"T", "t", "T">>,
     <<"U", "u", "U">>, <<"V", "v", "V">>, <<"W", "w", "W">>, <<"X", "x", "X">>,
     <<"Y", "y", "Y">>, <<"Z", "z", "Z">>,
     <<"AUTHORIZATION", "authorization", "Authorization">>,
     <<"CONTENT-LENGTH", "content-length", "Content-Length">>,
     <<"DATE", "date", "Date">>, <<"HOST", "host", "Host">>,
     <<"TRAILER", "trailer", "Trailer">>,
     <<"TRANSFER-ENCODING", "transfer-encoding", "Transfer-Encoding">>,
     <<"USER-AGENT", "user-agent", "User-Agent">>,
     <<"X-AMZ-DATE", "x-amz-date", "X-Amz-Date">>,
     <<"GET", "get", "Get">>, <<"POST", "post", "Post">> >>

\* each cased token with its three spellings
CaseIndex ==
  LET indexOf(T) ==
        [c \in UNION {{T[i][1], T[i][2], T[i][3]} : i \in DOMAIN T} |->
           T[CHOOSE i \in DOMAIN T : c \in {T[i][1], T[i][2], T[i][3]}]]
  IN  indexOf(Cases)

\* the spelling of token c in column col of the case table; other tokens
\* have no case
CaseChar(c, col) ==
  LET spell(ix) == IF c \in DOMAIN ix THEN ix[c][col] ELSE c IN spell(CaseIndex)

UpperChar(c) == CaseChar(c, 1)
LowerChar(c) == CaseChar(c, 2)
\* a word with its first letter and the letters after '-' in upper case, the
\* others in lower case
TitleChar(c) == CaseChar(c, 3)

\* strings.ToLower / strings.ToUpper
ToLower(s) == [i \in 1..Len(s) |-> LowerChar(s[i])]
ToUpper(s) == [i \in 1..Len(s) |-> UpperChar(s[i])]

\* unicode.IsSpace on the characters of the model
IsSpace(c) == c \in {" ", "\t", "\n", "\r", CRLF}

RECURSIVE TrimLeft(_)
TrimLeft(s) == IF s # <<>> /\ IsSpace(Head(s)) THEN TrimLeft(Tail(s)) ELSE s

RECURSIVE TrimRight(_)
TrimRight(s) ==
  IF s # <<>> /\ IsSpace(s[Len(s)]) THEN TrimRight(Cut(s, 1, Len(s) - 1)) ELSE s

\* strings.TrimSpace
TrimSpace(s) == TrimRight(TrimLeft(s))

(***************************************************************************)
(* Time (package time).  A time.Time is an instant shown in a zone.  An    *)
(* instant is a tick count; tick 0 is 2011-09-09 23:36:00 UTC, the instant *)
(* of the package's test vector.  A zone is its offset from UTC in ticks.  *)
(***************************************************************************)
MaxTime == MaxClock + TicksPerDay
Instants == 0..MaxTime
Zones == {0 - TicksPerDay \div 2, 0, TicksPerDay \div 2}
Times == [at : Instants, zone : Zones]

\* time.Date(..., time.UTC): the instant i shown in UTC
At(i) == [at |-> i, zone |-> 0]

\* time.Now(): the clock's instant shown in the local zone
LocalZone == CHOOSE z \in Zones : z > 0
Now(clock) == [at |-> clock, zone |-> LocalZone]

TwoDigits(n) == IF n < 10 THEN "0" \o ToString(n) ELSE ToString(n)

\* the calendar fields of t are those of its instant moved by its zone
WallClock(t) == t.at + t.zone
DayOfMonth(t) == TwoDigits(9 + (WallClock(t) \div TicksPerDay))
Seconds(t) == TwoDigits(WallClock(t) % TicksPerDay)

\* the Z07:00 element of a layout: Z for UTC, else the signed offset
ZoneText(z) ==
  IF z = 0 THEN "Z"
  ELSE IF z > 0 THEN "+" \o TwoDigits(z) \o ":00"
  ELSE "-" \o TwoDigits(0 - z) \o ":00"

\* t.UTC(): the same instant, shown in UTC
UTC(t) == [t EXCEPT !.zone = 0]

\* t.Format(FMT_YYYYMMDD): the calendar date of t in its zone
FormatYYYYMMDD(t) == << "201109" \o DayOfMonth(t) >>

\* t.Format(FMT_AMZN_DATE): date, time and zone of t
FormatAmznDate(t) ==
  FormatYYYYMMDD(t) \o << "T", "2336" \o Seconds(t), ZoneText(t.zone) >>

\* t.Format(time.RFC1123) of a UTC time (the parser does not check the weekday)
FormatRFC1123(t) ==
  << "Mon,", " ", DayOfMonth(t), " ", "Sep", " ", "2011", " ",
     "23", ":", "36", ":", Seconds(t), " ", "GMT" >>

\* the times an RFC-1123 text with the zone GMT stands for
GMTTimes == {At(i) : i \in Instants}

\* time.Parse(time.RFC1123, v): the instant whose RFC-1123 text is v, or an error
ParseRFC1123(v) ==
  IF \E t \in GMTTimes : FormatRFC1123(t) = v
  THEN [err |-> "", t |-> CHOOSE t \in GMTTimes : FormatRFC1123(t) = v]
  ELSE [err |-> "time: cannot parse", t |-> At(0)]

\* time.Parse(FMT_AMZN_DATE, v): the instant whose compact text is v, or an error
ParseAmznDate(v) ==
  IF \E t \in Times : FormatAmznDate(t) = v
  THEN [err |-> "", t |-> CHOOSE t \in Times : FormatAmznDate(t) = v]
  ELSE [err |-> "time: cannot parse", t |-> At(0)]

(***************************************************************************)
(* Hashes (crypto/sha256, crypto/hmac) as free constructors.               *)
(***************************************************************************)
\* fmt.Sprintf("%x", sha256(text)): one opaque word
Sha256Hex(text) == << "sha256(" \o Flat(text) \o ")" >>

\* part_001:306  signHMAC(key, data): the MAC as a byte string
signHMAC(key, data) == "hmac(" \o key \o "," \o Flat(data) \o ")"

\* fmt.Sprintf("%x", bytes): the hex text of a byte string
Hex(bytes) == "hex(" \o bytes \o ")"

\* SigningKey with the service name signed before the region name
SigningKey_ServiceFirst(awsKey, dateStamp, regionName, serviceName) ==
  LET loop(data) ==
        LET key[i \in 0..Len(data)] ==
              IF i = 0 THEN "AWS4" \o Flat(awsKey) ELSE signHMAC(key[i - 1], data[i])
        IN  key[Len(data)]
  IN  loop(<<dateStamp, serviceName, regionName, <<"aws4_request">>>>)

\* part_001:288  SigningKey: the key after the loop over data (signHMAC on
\* in-memory data returns no error)
SigningKey(awsKey, dateStamp, regionName, serviceName) ==
  LET loop(data) ==
        LET key[i \in 0..Len(data)] ==
              IF i = 0 THEN "AWS4" \o Flat(awsKey) ELSE signHMAC(key[i - 1], data[i])
        IN  key[Len(data)]
  IN  loop(<<dateStamp, regionName, serviceName, <<"aws4_request">>>>)

LF == "\n"

\* CredentialScope dated in the zone of t, without t.UTC()
CredentialScope_ZoneDate(t, regionName, serviceName) ==
  FormatYYYYMMDD(t) \o <<"/">> \o regionName \o <<"/">> \o serviceName
    \o <<"/", "aws4_request">>

\* part_001:246  CredentialScope
CredentialScope(t, regionName, serviceName) ==
  FormatYYYYMMDD(UTC(t)) \o <<"/">> \o regionName \o <<"/">> \o serviceName
    \o <<"/", "aws4_request">>

\* part_001:251  StringToSign
StringToSign(canonicalRequest, credentialScope, t) ==
  <<"AWS4-HMAC-SHA256", LF>> \o FormatAmznDate(UTC(t)) \o <<LF>>
    \o credentialScope \o <<LF>> \o Sha256Hex(canonicalRequest)

\* SignStringToSign that takes a scope of 4 or more elements
SignStringToSign_LongScope(sts, secretKey) ==
  LET sign(lines) ==
        LET signScope(parts) ==
              IF Len(parts) < 4
              THEN [err |-> "Expected 4 elements in", sig |-> <<>>]
              ELSE [err |-> "",
                    sig |-> << Hex(signHMAC(SigningKey(secretKey, parts[1], parts[2],
                                                       parts[3]), sts)) >>]
        IN  IF Len(lines) # 4
            THEN [err |-> "Expected 4 lines in sts", sig |-> <<>>]
            ELSE signScope(Split(lines[3], "/"))
  IN  sign(Split(sts, LF))

\* part_001:260  SignStringToSign: [err, sig]
SignStringToSign(sts, secretKey) ==
  LET sign(lines) ==
        LET signScope(parts) ==
              IF Len(parts) # 4
              THEN [err |-> "Expected 4 elements in", sig |-> <<>>]
              ELSE [err |-> "",
                    sig |-> << Hex(signHMAC(SigningKey(secretKey, parts[1], parts[2],
                                                       parts[3]), sts)) >>]
        IN  IF Len(lines) # 4
            THEN [err |-> "Expected 4 lines in sts", sig |-> <<>>]
            ELSE signScope(Split(lines[3], "/"))
  IN  sign(Split(sts, LF))

(***************************************************************************)
(* URLs (package net/url, package path).                                   *)
(***************************************************************************)
HexDigits == {"0", "1", "2", "3", "4", "5", "6", "7", "8", "9",
              "A", "B", "C", "D", "E", "F", "a", "b", "c", "d", "e", "f"}

\* the characters of the model that url.QueryEscape writes as %XX
EscapeTable ==
  [c \in {"\"", "%", "&", "+", "/", ":", ";", "=", "?"} |->
     CASE c = "\"" -> <<"2", "2">>
       [] c = "%" -> <<"2", "5">>
       [] c = "&" -> <<"2", "6">>
       [] c = "+" -> <<"2", "B">>
       [] c = "/" -> <<"2", "F">>
       [] c = ":" -> <<"3", "A">>
       [] c = ";" -> <<"3", "B">>
       [] c = "=" -> <<"3", "D">>
       [] c = "?" -> <<"3", "F">>]

RECURSIVE QueryEscape(_)
\* url.QueryEscape: unreserved characters stay, a space becomes '+'
QueryEscape(s) ==
  IF s = <<>> THEN <<>>
  ELSE LET c == Head(s)
       IN  (IF c = " " THEN <<"+">>
            ELSE IF c \in DOMAIN EscapeTable THEN <<"%">> \o EscapeTable[c]
            ELSE <<c>>) \o QueryEscape(Tail(s))

RECURSIVE ValidEscapes(_)
\* every '%' is followed by two hex digits
ValidEscapes(s) ==
  IF s = <<>> THEN TRUE
  ELSE IF Head(s) # "%" THEN ValidEscapes(Tail(s))
  ELSE Len(s) >= 3 /\ s[2] \in HexDigits /\ s[3] \in HexDigits
       /\ ValidEscapes(Cut(s, 4, Len(s)))

\* the character a %XX pair stands for; a pair outside the table is an opaque byte
Unhex(h1, h2) ==
  IF \E c \in DOMAIN EscapeTable : EscapeTable[c] = <<h1, h2>>
  THEN CHOOSE c \in DOMAIN EscapeTable : EscapeTable[c] = <<h1, h2>>
  ELSE IF <<h1, h2>> = <<"2", "0">> THEN " "
  ELSE "%" \o h1 \o h2

RECURSIVE QueryUnescapeValid(_)
QueryUnescapeValid(s) ==
  IF s = <<>> THEN <<>>
  ELSE IF Head(s) = "%" THEN <<Unhex(s[2], s[3])>> \o QueryUnescapeValid(Cut(s, 4, Len(s)))
  ELSE IF Head(s) = "+" THEN <<" ">> \o QueryUnescapeValid(Tail(s))
  ELSE <<Head(s)>> \o QueryUnescapeValid(Tail(s))

\* url.QueryUnescape: [err, s]
QueryUnescape(s) ==
  IF ValidEscapes(s) THEN [err |-> "", s |-> QueryUnescapeValid(s)]
  ELSE [err |-> "invalid URL escape", s |-> <<>>]

SchemeWords == {"http", "https"}

\* a URL scheme: letters (or a scheme word) before the first ':'
IsScheme(s) ==
  /\ s # <<>>
  /\ \A i \in 1..Len(s) : s[i] \in SchemeWords \/ s[i] \in DOMAIN CaseIndex

\* the request target up to the first '?', and what follows it
BeforeQuery(u) == LET k == Index(u, "?") IN IF k = 0 THEN u ELSE Cut(u, 1, k - 1)
AfterQuery(u) == LET k == Index(u, "?") IN IF k = 0 THEN <<>> ELSE Cut(u, k + 1, Len(u))

\* url.ParseRequestURI that accepts every request target
ParseRequestURI_AcceptAll(rawurl) == [err |-> "", RawQuery |-> AfterQuery(rawurl)]

\* url.ParseRequestURI(rawurl): [err, RawQuery]
ParseRequestURI(rawurl) ==
  LET bad == [err |-> "parse: invalid URI for request", RawQuery |-> <<>>]
      parse(front) ==
        LET parseAt(k, slash) ==
              IF k = 1 THEN bad
              ELSE IF Head(rawurl) # "/"
                      /\ ~(k > 1 /\ (slash = 0 \/ k < slash)
                             /\ IsScheme(Cut(rawurl, 1, k - 1)))
              THEN bad
              ELSE IF ~ValidEscapes(front) THEN bad
              ELSE [err |-> "", RawQuery |-> AfterQuery(rawurl)]
        IN  parseAt(Index(front, ":"), Index(front, "/"))
  IN  IF rawurl = <<>> THEN bad
      ELSE IF rawurl = <<"*">> THEN [err |-> "", RawQuery |-> <<>>]
      ELSE parse(BeforeQuery(rawurl))

RECURSIVE ParsePairs(_)
\* url.ParseQuery over the '&'-separated pieces: the (key, value) pairs in
\* encounter order; an empty piece or one with a bad escape is dropped
ParsePairs(pieces) ==
  IF pieces = <<>> THEN <<>>
  ELSE LET pair(k, v) ==
             IF Head(pieces) = <<>> \/ k.err # "" \/ v.err # "" THEN <<>>
             ELSE << <<k.s, v.s>> >>
           parse(kv) ==
             pair(QueryUnescape(kv[1]),
                  IF Len(kv) = 2 THEN QueryUnescape(kv[2]) ELSE [err |-> "", s |-> <<>>])
       IN  parse(SplitN2(Head(pieces), "=")) \o ParsePairs(Tail(pieces))

\* reqUrl.Query(): url.Values as the pairs in encounter order
Query(rawQuery) == ParsePairs(Split(rawQuery, "&"))

\* values[k]: the values of key k in encounter order
ValuesOf(values, k) ==
  LET F[i \in 0..Len(values)] ==
        IF i = 0 THEN <<>>
        ELSE IF values[i][1] = k THEN F[i - 1] \o <<values[i][2]>> ELSE F[i - 1]
  IN  F[Len(values)]

\* the distinct keys of the map
KeysOf(values) == {values[i][1] : i \in 1..Len(values)}

RECURSIVE SetToSeq(_)
SetToSeq(S) ==
  IF S = {} THEN <<>> ELSE LET x == CHOOSE x \in S : TRUE IN <<x>> \o SetToSeq(S \ {x})

RECURSIVE EncodeKeys(_, _)
\* part_001:204-214: the loop over the sorted escaped keys
EncodeKeys(values, keys) ==
  IF keys = <<>> THEN [err |-> "", out |-> <<>>]
  ELSE LET k == Head(keys)
           encode(orig, rest) ==
             LET pairs(vals) == [i \in 1..Len(vals) |-> k \o <<"=">> \o QueryEscape(vals[i])]
             IN  IF orig.err # "" THEN [err |-> orig.err, out |-> <<>>]
                 ELSE IF rest.err # "" THEN rest
                 ELSE [err |-> "",
                       out |-> pairs(SortStrings(ValuesOf(values, orig.s))) \o rest.out]
       IN  encode(QueryUnescape(k), EncodeKeys(values, Tail(keys)))

\* part_001:191  orderAndEncodeUrlValues: [err, s]
orderAndEncodeUrlValues(values) ==
  LET escaped(ks) == [i \in 1..Len(ks) |-> QueryEscape(ks[i])]
      result(r) == IF r.err # "" THEN [err |-> r.err, s |-> <<>>]
                   ELSE [err |-> "", s |-> Join(r.out, <<"&">>)]
  IN  result(EncodeKeys(values, SortStrings(escaped(SetToSeq(KeysOf(values))))))

RECURSIVE CleanSegs(_, _, _)
\* path.Clean over the '/'-separated segments: out is the stack of kept segments
CleanSegs(segs, out, rooted) ==
  IF segs = <<>> THEN out
  ELSE LET sg == Head(segs)
       IN  IF sg = <<>> \/ sg = <<".">> THEN CleanSegs(Tail(segs), out, rooted)
           ELSE IF sg = <<".", ".">>
           THEN IF out # <<>> /\ out[Len(out)] # <<".", ".">>
                THEN CleanSegs(Tail(segs), Cut(out, 1, Len(out) - 1), rooted)
                ELSE IF rooted THEN CleanSegs(Tail(segs), out, rooted)
                ELSE CleanSegs(Tail(segs), out \o <<sg>>, rooted)
           ELSE CleanSegs(Tail(segs), out \o <<sg>>, rooted)

\* path.Clean
PathClean(p) ==
  LET rooted == p # <<>> /\ Head(p) = "/"
      clean(kept) ==
        IF p = <<>> THEN <<".">>
        ELSE IF rooted THEN <<"/">> \o kept
        ELSE IF kept = <<>> THEN <<".">>
        ELSE kept
  IN  clean(Join(CleanSegs(Split(p, "/"), <<>>, rooted), <<"/">>))

\* part_001:158  getRawPath
getRawPath(rawUrl) ==
  LET raw(urlPath) ==
        LET slashed(cleaned) ==
              IF HasSuffix(urlPath, "/") /\ ~HasSuffix(cleaned, "/")
              THEN cleaned \o <<"/">> ELSE cleaned
        IN  slashed(PathClean(urlPath))
  IN  IF rawUrl = <<"/">> THEN <<"/">> ELSE raw(SplitN2(rawUrl, "?")[1])

(***************************************************************************)
(* The canonical request.                                                  *)
(***************************************************************************)
RECURSIVE trimLoop(_, _, _)
\* part_001:340-354: the loop of trimAll over the characters of val
trimLoop(val, inQuote, priorWhitespace) ==
  IF val = <<>> THEN <<>>
  ELSE LET c == Head(val)
       IN  IF ~inQuote /\ IsSpace(c)
           THEN IF ~priorWhitespace
                THEN <<" ">> \o trimLoop(Tail(val), inQuote, TRUE)
                ELSE trimLoop(Tail(val), inQuote, TRUE)
           ELSE IF c = "\""
           THEN <<c>> \o trimLoop(Tail(val), ~inQuote, FALSE)
           ELSE <<c>> \o trimLoop(Tail(val), inQuote, FALSE)

\* trimAll that takes the value to begin inside a quoted span
trimAll_InQuote(val) == trimLoop(TrimSpace(val), TRUE, FALSE)

\* part_001:333  trimAll
trimAll(val) == trimLoop(TrimSpace(val), FALSE, FALSE)

RECURSIVE crHeaderLoop(_, _, _)
\* part_001:225-240: the loop of crHeaderMap; headers is the map, keys the
\* labels in encounter order
crHeaderLoop(lines, headers, keys) ==
  IF lines = <<>> \/ Head(lines) = <<>> THEN [headers |-> headers, keys |-> keys]
  ELSE LET put(label, value) ==
             IF label \in DOMAIN headers
             THEN crHeaderLoop(Tail(lines),
                               [headers EXCEPT ![label] = @ \o <<",">> \o value], keys)
             ELSE crHeaderLoop(Tail(lines),
                               [l \in DOMAIN headers \cup {label} |->
                                  IF l = label THEN value ELSE headers[l]],
                               keys \o <<label>>)
           line(splitline) ==
             IF Len(splitline) # 2 THEN crHeaderLoop(Tail(lines), headers, keys)
             ELSE put(ToLower(splitline[1]), trimAll(splitline[2]))
       IN  line(SplitN2(Head(lines), ":"))

\* crHeaderMap that leaves the labels in encounter order
crHeaderMap_Unsorted(lines) ==
  LET sorted(r) == [headers |-> r.headers, sortedKeys |-> r.keys]
  IN  sorted(crHeaderLoop(Tail(lines), [l \in {} |-> <<>>], <<>>))

\* crHeaderMap that leaves the Authorization header out
crHeaderMap_NoAuthorization(lines) ==
  LET sorted(r) ==
        [headers |-> [l \in DOMAIN r.headers \ {<<"authorization">>} |-> r.headers[l]],
         sortedKeys |-> SortStrings(SelectSeq(r.keys, LAMBDA l : l # <<"authorization">>))]
  IN  sorted(crHeaderLoop(Tail(lines), [l \in {} |-> <<>>], <<>>))

\* part_001:220  crHeaderMap: [headers, sortedKeys]
crHeaderMap(lines) ==
  LET sorted(r) == [headers |-> r.headers, sortedKeys |-> SortStrings(r.keys)]
  IN  sorted(crHeaderLoop(Tail(lines), [l \in {} |-> <<>>], <<>>))

\* the index (from 0) of the first empty line, 0 when there is none
FirstBlank(reqLines) ==
  IF \E i \in 1..Len(reqLines) : reqLines[i] = <<>>
  THEN (CHOOSE i \in 1..Len(reqLines) :
          reqLines[i] = <<>> /\ \A j \in 1..(i - 1) : reqLines[j] # <<>>) - 1
  ELSE 0

\* part_001:176  getBody: [nil, bytes]
getBody(reqLines) ==
  LET body(blankIdx) ==
        IF blankIdx > 0 /\ Len(reqLines) > blankIdx + 1
        THEN [nil |-> FALSE,
              bytes |-> Join(Cut(reqLines, blankIdx + 2, Len(reqLines)), <<CRLF>>)]
        ELSE [nil |-> TRUE, bytes |-> <<>>]
  IN  body(FirstBlank(reqLines))

\* part_001:315  hashSha256Body
hashSha256Body(body) == IF body.nil THEN Sha256Hex(<<>>) ELSE Sha256Hex(body.bytes)

NilCR == [nil |-> TRUE, CanonicalRequest |-> <<>>, Headers |-> <<>>]

\* CanonicalRequest without the empty line before the signed-header list
CanonicalRequest_NoBlankLine(req) ==
  LET canonical(lines) ==
        LET build(line1parts, reqUrl, hm) ==
              LET headersSigned == Join(hm.sortedKeys, <<";">>)
                  hlines == [i \in 1..Len(hm.sortedKeys) |->
                               hm.sortedKeys[i] \o <<":">> \o hm.headers[hm.sortedKeys[i]]]
                  finish(query, signed) ==
                    IF query.err # "" THEN [err |-> query.err, cr |-> NilCR]
                    ELSE [err |-> "",
                          cr |-> [nil |-> FALSE,
                                  CanonicalRequest |->
                                    Join(<<ToUpper(line1parts[1]),
                                           getRawPath(line1parts[2]), query.s>>
                                           \o hlines \o <<signed>>
                                           \o <<hashSha256Body(getBody(lines))>>,
                                         <<LF>>),
                                  Headers |-> signed]]
              IN  IF reqUrl.err # "" THEN [err |-> reqUrl.err, cr |-> NilCR]
                  ELSE finish(orderAndEncodeUrlValues(Query(reqUrl.RawQuery)),
                              headersSigned)
            first(line1parts) ==
              IF Len(line1parts) < 3
              THEN [err |-> "Not enough data in the first line of request",
                    cr |-> NilCR]
              ELSE build(line1parts, ParseRequestURI(line1parts[2]), crHeaderMap(lines))
        IN  IF Len(lines) < 1
            THEN [err |-> "Not enough data in the request", cr |-> NilCR]
            ELSE first(Split(lines[1], " "))
  IN  canonical(Split(req, CRLF))

\* part_001:104  CanonicalRequest: [err, cr]
CanonicalRequest(req) ==
  LET canonical(lines) ==
        LET build(line1parts, reqUrl, hm) ==
              LET headersSigned == Join(hm.sortedKeys, <<";">>)
                  hlines == [i \in 1..Len(hm.sortedKeys) |->
                               hm.sortedKeys[i] \o <<":">> \o hm.headers[hm.sortedKeys[i]]]
                  finish(query, signed) ==
                    IF query.err # "" THEN [err |-> query.err, cr |-> NilCR]
                    ELSE [err |-> "",
                          cr |-> [nil |-> FALSE,
                                  CanonicalRequest |->
                                    Join(<<ToUpper(line1parts[1]),
                                           getRawPath(line1parts[2]), query.s>>
                                           \o hlines \o <<<<LF>> \o signed>>
                                           \o <<hashSha256Body(getBody(lines))>>,
                                         <<LF>>),
                                  Headers |-> signed]]
              IN  IF reqUrl.err # "" THEN [err |-> reqUrl.err, cr |-> NilCR]
                  ELSE finish(orderAndEncodeUrlValues(Query(reqUrl.RawQuery)),
                              headersSigned)
            first(line1parts) ==
              IF Len(line1parts) < 3
              THEN [err |-> "Not enough data in the first line of request",
                    cr |-> NilCR]
              ELSE build(line1parts, ParseRequestURI(line1parts[2]), crHeaderMap(lines))
        IN  IF Len(lines) < 1
            THEN [err |-> "Not enough data in the request", cr |-> NilCR]
            ELSE first(Split(lines[1], " "))
  IN  canonical(Split(req, CRLF))

\* AuthHeaderValue with the parts joined by bare commas
AuthHeaderValue_NoSpace(signature, accessKey, credentialScope, cr) ==
  <<"AWS4-HMAC-SHA256", " ", "Credential=">> \o accessKey \o <<"/">>
    \o credentialScope \o <<",", "SignedHeaders=">> \o cr.Headers
    \o <<",", "Signature=">> \o signature

\* part_001:91  AuthHeaderValue
AuthHeaderValue(signature, accessKey, credentialScope, cr) ==
  <<"AWS4-HMAC-SHA256", " ", "Credential=">> \o accessKey \o <<"/">>
    \o credentialScope \o <<",", " ", "SignedHeaders=">> \o cr.Headers
    \o <<",", " ", "Signature=">> \o signature

(***************************************************************************)
(* Objects.  A bytes.Reader is [s, i]: its bytes and its cursor.  A body   *)
(* is [kind, rd]: "nil", or a "ReusableBody" (pointer to ReusableBody), a  *)
(* "BytesReader" (pointer to bytes.Reader) or an "Other" reader, over the  *)
(* reader object rd.  Objects live in heaps (sequences) and are named by   *)
(* their index, so that two names of one object share its state.           *)
(***************************************************************************)
NilBody == [kind |-> "nil", rd |-> 0]

\* rb.Len(): the unread bytes
ReaderLen(rdr) == Len(rdr.s) - rdr.i

\* the unread bytes of a reader
Unread(rdr) == Cut(rdr.s, rdr.i + 1, Len(rdr.s))

\* rb.Seek(0, 0)
Seek0(rdrs, id) == [rdrs EXCEPT ![id].i = 0]

\* reading a reader to its end
Drain(rdrs, id) == [rdrs EXCEPT ![id].i = Len(rdrs[id].s)]

(***************************************************************************)
(* http.Header                                                             *)
(***************************************************************************)
RECURSIVE canonicalLoop(_, _)
canonicalLoop(name, upper) ==
  IF name = <<>> THEN <<>>
  ELSE <<CaseChar(Head(name), IF Len(Head(name)) > 1 THEN 3
                                ELSE IF upper THEN 1 ELSE 2)>>
         \o canonicalLoop(Tail(name), Head(name) = "-")

\* textproto.CanonicalMIMEHeaderKey
CanonicalMIMEHeaderKey(name) == canonicalLoop(name, TRUE)

EmptyHeader == [k \in {} |-> <<>>]

\* Header.Get: the first value of the key, "" when there is none
HeaderGet(H, name) ==
  LET get(k) == IF k \in DOMAIN H /\ H[k] # <<>> THEN H[k][1] ELSE <<>>
  IN  get(CanonicalMIMEHeaderKey(name))

\* Header.Set that makes a new map of the one key
HeaderSet_Alone(H, name, value) ==
  LET set(k) == [x \in {k} |-> <<value>>]
  IN  set(CanonicalMIMEHeaderKey(name))

\* Header.Set: the key holds exactly this value
HeaderSet(H, name, value) ==
  LET set(k) == [x \in DOMAIN H \cup {k} |-> IF x = k THEN <<value>> ELSE H[x]]
  IN  set(CanonicalMIMEHeaderKey(name))

DateName == <<"Date">>
XAmzDateName == <<"x-amz-date">>
AuthorizationName == <<"Authorization">>
UserAgentName == <<"User-Agent">>
HostName == <<"Host">>
ContentLengthName == <<"Content-Length">>
TransferEncodingName == <<"Transfer-Encoding">>
TrailerName == <<"Trailer">>

(***************************************************************************)
(* net/http: url.Parse, http.NewRequest and Request.Write, as the package  *)
(* calls them.                                                             *)
(***************************************************************************)
NilURL == [Scheme |-> <<>>, Host |-> <<>>, Path |-> <<>>, RawQuery |-> <<>>]

\* url.Parse(urlString): [err, URL]
ParseURL(u) ==
  LET parse(front) ==
        LET authority(rest, scheme) ==
              LET hasHost == Len(rest) >= 2 /\ rest[1] = "/" /\ rest[2] = "/"
                  split(afterSl, hostEnd) ==
                    [Scheme |-> scheme,
                     Host |-> IF hostEnd = 0 THEN afterSl ELSE Cut(afterSl, 1, hostEnd - 1),
                     Path |-> IF hostEnd = 0 THEN <<>>
                              ELSE Cut(afterSl, hostEnd, Len(afterSl)),
                     RawQuery |-> AfterQuery(u)]
              IN  IF ~hasHost
                  THEN [Scheme |-> scheme, Host |-> <<>>, Path |-> rest,
                        RawQuery |-> AfterQuery(u)]
                  ELSE split(Cut(rest, 3, Len(rest)), Index(Cut(rest, 3, Len(rest)), "/"))
            parseAt(k, slash) ==
              IF k = 1 THEN [err |-> "parse: missing protocol scheme", URL |-> NilURL]
              ELSE IF ~ValidEscapes(front)
              THEN [err |-> "parse: invalid URL escape", URL |-> NilURL]
              ELSE IF k > 1 /\ (slash = 0 \/ k < slash) /\ IsScheme(Cut(front, 1, k - 1))
              THEN [err |-> "",
                    URL |-> authority(Cut(front, k + 1, Len(front)), Cut(front, 1, k - 1))]
              ELSE [err |-> "", URL |-> authority(front, <<>>)]
        IN  parseAt(Index(front, ":"), Index(front, "/"))
  IN  parse(BeforeQuery(u))

\* URL.RequestURI()
RequestURI(URL) ==
  (IF URL.Path = <<>> THEN <<"/">> ELSE URL.Path)
    \o (IF URL.RawQuery = <<>> THEN <<>> ELSE <<"?">> \o URL.RawQuery)

\* the User-Agent line net/http writes when the request sets none
DefaultUserAgent == <<"Go 1.1 package http">>

\* the headers Request.Write writes itself and leaves out of Header.Write
reqWriteExcludeHeader ==
  {HostName, UserAgentName, ContentLengthName, TransferEncodingName, TrailerName}

HeaderLine(name, value) == name \o <<":", " ">> \o value \o <<CRLF>>

RECURSIVE HeaderLines(_, _)
\* Header.WriteSubset: one line per value, keys in sorted order
HeaderLines(H, keys) ==
  IF keys = <<>> THEN <<>>
  ELSE LET k == Head(keys)
           F[i \in 0..Len(H[k])] ==
             IF i = 0 THEN <<>> ELSE F[i - 1] \o HeaderLine(k, H[k][i])
       IN  F[Len(H[k])] \o HeaderLines(H, Tail(keys))

\* Request.Write / Request.WriteProxy on a request whose body is nil or reads
\* from reader rd: [err, out, readers].  A body with ContentLength 0 is
\* probed and sent chunked when it holds bytes; a body that does not hold
\* exactly ContentLength bytes is an error after ContentLength bytes of it.
GoRequestWrite(req, H, rdrs, usingProxy) ==
  LET hasBody == req.Body.kind # "nil"
      cl == req.ContentLength
      ruri == (IF usingProxy /\ req.URL.Scheme # <<>> /\ req.URL.Host # <<>>
               THEN req.URL.Scheme \o <<":", "/", "/">> \o req.URL.Host ELSE <<>>)
                \o RequestURI(req.URL)
      userAgent(ua) == IF ua # <<>> THEN HeaderLine(UserAgentName, ua) ELSE <<>>
      send(rem) ==
        LET chunked == hasBody /\ cl = 0 /\ rem # <<>>
        IN  [err |-> IF hasBody /\ cl > 0 /\ Len(rem) # cl
                     THEN "http: Request.ContentLength with Body length" ELSE "",
             out |-> req.Method \o <<" ">> \o ruri \o <<" ", "HTTP/1.1", CRLF>>
                       \o HeaderLine(HostName, req.Host)
                       \o userAgent(IF UserAgentName \in DOMAIN H
                                     THEN HeaderGet(H, UserAgentName)
                                     ELSE DefaultUserAgent)
                       \o (IF hasBody /\ cl > 0
                           THEN HeaderLine(ContentLengthName, <<ToString(cl)>>)
                           ELSE <<>>)
                       \o (IF chunked
                           THEN HeaderLine(TransferEncodingName, <<"chunked">>)
                           ELSE <<>>)
                       \o HeaderLines(H, SortStrings(SetToSeq(DOMAIN H
                                                                \ reqWriteExcludeHeader)))
                       \o <<CRLF>>
                       \o (IF chunked
                           THEN <<ToString(Len(rem)), CRLF>> \o rem
                                  \o <<CRLF, "0", CRLF, CRLF>>
                           ELSE IF hasBody /\ cl > 0
                           THEN Cut(rem, 1, IF cl < Len(rem) THEN cl ELSE Len(rem))
                           ELSE <<>>),
             readers |-> IF hasBody THEN Drain(rdrs, req.Body.rd) ELSE rdrs]
  IN  send(IF hasBody THEN Unread(rdrs[req.Body.rd]) ELSE <<>>)

(***************************************************************************)
(* ReusableRequest                                                         *)
(***************************************************************************)
\* part_001:446  makeReusableBody: [err, rb, readers]
makeReusableBody(body, rdrs) ==
  CASE body.kind = "nil" -> [err |-> "", rb |-> NilBody, readers |-> rdrs]
    [] body.kind = "BytesReader" ->
         [err |-> "", rb |-> [kind |-> "ReusableBody", rd |-> body.rd], readers |-> rdrs]
    [] body.kind = "ReusableBody" -> [err |-> "", rb |-> body, readers |-> rdrs]
    [] body.kind = "Failing" ->
         [err |-> "read error", rb |-> NilBody, readers |-> rdrs]
    [] OTHER ->
         [err |-> "",
          rb |-> [kind |-> "ReusableBody", rd |-> Len(rdrs) + 1],
          readers |-> Append(Drain(rdrs, body.rd),
                             [s |-> Unread(rdrs[body.rd]), i |-> 0])]

\* http.NewRequest(method, urlString, nil): [err, req], Header the new map hid
NewRequest(method, urlString, hid) ==
  LET new(u) ==
        [err |-> u.err,
         req |-> [Method |-> method, URL |-> u.URL, Host |-> u.URL.Host,
                  Header |-> hid, Body |-> NilBody, ContentLength |-> 0]]
  IN  new(ParseURL(urlString))

\* part_001:381  NewReusableRequest: [err, rreq, reqs, hmaps, readers]
NewReusableRequest(method, urlString, body, rqs, hms, rdrs) ==
  LET fail(e) == [err |-> e, rreq |-> 0, reqs |-> rqs, hmaps |-> hms, readers |-> rdrs]
      new(n, m) ==
        IF n.err # "" THEN fail(n.err)
        ELSE IF body.kind = "nil"
        THEN [err |-> "", rreq |-> Len(rqs) + 1, reqs |-> Append(rqs, n.req),
              hmaps |-> Append(hms, EmptyHeader), readers |-> rdrs]
        ELSE IF m.err # "" THEN [fail(m.err) EXCEPT !.readers = m.readers]
        ELSE [err |-> "", rreq |-> Len(rqs) + 1,
              reqs |-> Append(rqs, [n.req EXCEPT
                                      !.Body = m.rb,
                                      !.ContentLength = ReaderLen(m.readers[m.rb.rd])]),
              hmaps |-> Append(hms, EmptyHeader), readers |-> m.readers]
  IN  new(NewRequest(method, urlString, Len(hms) + 1), makeReusableBody(body, rdrs))

\* part_001:401  NewReusableRequestFromRequest on the request object req:
\* [err, rreq, reqs, readers].  zeroReadEOF: whether Read into a zero-length
\* buffer at the end of a reader reports EOF (it depends on the library build).
NewReusableRequestFromRequest(req, rqs, rdrs, zeroReadEOF) ==
  LET rreq == req
      from(m) ==
        LET n == ReaderLen(m.readers[m.rb.rd])
            b == Unread(m.readers[m.rb.rd])
            readErr == IF n = 0 /\ zeroReadEOF THEN "EOF" ELSE ""
            seeked == Seek0(m.readers, m.rb.rd)
            rb2 == [kind |-> "ReusableBody", rd |-> Len(m.readers) + 1]
            rqs1 == [rqs EXCEPT ![rreq].Body = m.rb]
            rqs2 == [rqs1 EXCEPT ![req].Body = rb2]
        IN  IF m.err # ""
            THEN [err |-> m.err, rreq |-> 0, reqs |-> rqs, readers |-> m.readers]
            ELSE IF readErr # ""
            THEN [err |-> readErr, rreq |-> 0, reqs |-> rqs, readers |-> seeked]
            ELSE [err |-> "", rreq |-> rreq, reqs |-> rqs2,
                  readers |-> Append(seeked, [s |-> b, i |-> 0])]
  IN  IF rqs[req].Body.kind = "nil"
      THEN [err |-> "", rreq |-> rreq, reqs |-> rqs, readers |-> rdrs]
      ELSE from(makeReusableBody(rqs[req].Body, rdrs))

NilRequest == [nil |-> TRUE, Header |-> 0, Body |-> NilBody, ContentLength |-> 0]

\* part_001:424  ToHttpRequest: a new Request with the same header map and body
ToHttpRequest(req) ==
  [nil |-> FALSE, Header |-> req.Header, Body |-> req.Body,
   ContentLength |-> req.ContentLength]

\* write without the check of the body's type
write_Unchecked(req, H, rdrs, usingProxy) ==
  LET rewind(g) ==
        [err |-> g.err, out |-> g.out,
         readers |-> IF req.Body.kind # "nil" THEN Seek0(g.readers, req.Body.rd)
                     ELSE g.readers]
  IN  rewind(GoRequestWrite(req, H, rdrs, usingProxy))

\* part_001:478  write: [err, out, readers]
write(req, H, rdrs, usingProxy) ==
  LET ok == req.Body.kind = "ReusableBody"
      rewind(g) ==
        [err |-> g.err, out |-> g.out,
         readers |-> IF req.Body.kind # "nil" THEN Seek0(g.readers, req.Body.rd)
                     ELSE g.readers]
  IN  IF ~ok /\ req.Body.kind # "nil"
      THEN [err |-> "Not sure body can be reused", out |-> <<>>, readers |-> rdrs]
      ELSE rewind(GoRequestWrite(req, H, rdrs, usingProxy))

(***************************************************************************)
(* Sign                                                                    *)
(***************************************************************************)
\* ResolveTime that goes on to the next source when a header does not parse
ResolveTime_Fallback(H, nowT) ==
  LET parsed(p, from) == [err |-> p.err, t |-> p.t, H |-> H, src |-> from, sets |-> 0]
      resolve(dt, dx) ==
        IF dt # <<>> /\ ParseRFC1123(dt).err = "" THEN parsed(ParseRFC1123(dt), "Date")
        ELSE IF dx # <<>> /\ ParseAmznDate(dx).err = ""
        THEN parsed(ParseAmznDate(dx), "x-amz-date")
        ELSE [err |-> "", t |-> UTC(Now(nowT)),
              H |-> HeaderSet(H, XAmzDateName, FormatAmznDate(UTC(Now(nowT)))),
              src |-> "clock", sets |-> 1]
  IN  resolve(HeaderGet(H, DateName), HeaderGet(H, XAmzDateName))

\* ResolveTime that signs the current time without putting it on the request
ResolveTime_NoStamp(H, nowT) ==
  LET parsed(p, from) == [err |-> p.err, t |-> p.t, H |-> H, src |-> from, sets |-> 0]
      resolve(dt, dx) ==
        IF dt # <<>> THEN parsed(ParseRFC1123(dt), "Date")
        ELSE IF dx # <<>> THEN parsed(ParseAmznDate(dx), "x-amz-date")
        ELSE [err |-> "", t |-> UTC(Now(nowT)), H |-> H, src |-> "clock", sets |-> 0]
  IN  resolve(HeaderGet(H, DateName), HeaderGet(H, XAmzDateName))

\* ResolveTime with x-amz-date looked at before Date
ResolveTime_AmzFirst(H, nowT) ==
  LET parsed(p, from) == [err |-> p.err, t |-> p.t, H |-> H, src |-> from, sets |-> 0]
      resolve(dt, dx) ==
        IF dx # <<>> THEN parsed(ParseAmznDate(dx), "x-amz-date")
        ELSE IF dt # <<>> THEN parsed(ParseRFC1123(dt), "Date")
        ELSE [err |-> "", t |-> UTC(Now(nowT)),
              H |-> HeaderSet(H, XAmzDateName, FormatAmznDate(UTC(Now(nowT)))),
              src |-> "clock", sets |-> 1]
  IN  resolve(HeaderGet(H, DateName), HeaderGet(H, XAmzDateName))

\* part_001:46-62: the timestamp of the signature: [err, t, H, src, sets]
\* src names where t came from; sets counts the Header.Set calls
ResolveTime(H, nowT) ==
  LET parsed(p, from) == [err |-> p.err, t |-> p.t, H |-> H, src |-> from, sets |-> 0]
      resolve(dt, dx) ==
        IF dt # <<>> THEN parsed(ParseRFC1123(dt), "Date")
        ELSE IF dx # <<>> THEN parsed(ParseAmznDate(dx), "x-amz-date")
        ELSE [err |-> "", t |-> UTC(Now(nowT)),
              H |-> HeaderSet(H, XAmzDateName, FormatAmznDate(UTC(Now(nowT)))),
              src |-> "clock", sets |-> 1]
  IN  resolve(HeaderGet(H, DateName), HeaderGet(H, XAmzDateName))

\* Sign with the credential scope dated by the clock, not by the timestamp
Sign_ScopeFromClock(req, H, rdrs, nowT, accessKey, secretKey, regionName, serviceName) ==
  LET timed(rt) ==
        LET fail(e, h, rs) ==
              [err |-> e, H |-> h, readers |-> rs, hreq |-> NilRequest, t |-> rt.t,
               src |-> rt.src, sets |-> rt.sets, sts |-> <<>>, cr |-> NilCR]
            signed(w, c, credentialScope) ==
              LET install(stringToSign) ==
                    LET header(sg) ==
                          IF sg.err # "" THEN fail(sg.err, rt.H, w.readers)
                          ELSE [err |-> "",
                                H |-> HeaderSet(rt.H, AuthorizationName,
                                                AuthHeaderValue(sg.sig, accessKey,
                                                                credentialScope, c.cr)),
                                readers |-> w.readers,
                                hreq |-> ToHttpRequest(req),
                                t |-> rt.t, src |-> rt.src, sets |-> rt.sets + 1,
                                sts |-> stringToSign, cr |-> c.cr]
                    IN  header(SignStringToSign(stringToSign, secretKey))
              IN  IF c.err # "" THEN fail(c.err, rt.H, w.readers)
                  ELSE install(StringToSign(c.cr.CanonicalRequest, credentialScope, rt.t))
            written(w) ==
              IF w.err # "" THEN fail(w.err, rt.H, w.readers)
              ELSE signed(w, CanonicalRequest(w.out),
                          CredentialScope(UTC(Now(nowT)), regionName, serviceName))
        IN  IF rt.err # "" THEN fail(rt.err, H, rdrs)
            ELSE written(write(req, rt.H, rdrs, FALSE))
  IN  timed(ResolveTime(H, nowT))

\* Sign with the Authorization header installed before the error of the
\* signature computation is looked at
Sign_AuthorizationFirst(req, H, rdrs, nowT, accessKey, secretKey, regionName, serviceName) ==
  LET timed(rt) ==
        LET fail(e, h, rs) ==
              [err |-> e, H |-> h, readers |-> rs, hreq |-> NilRequest, t |-> rt.t,
               src |-> rt.src, sets |-> rt.sets, sts |-> <<>>, cr |-> NilCR]
            signed(w, c, credentialScope) ==
              LET install(stringToSign) ==
                    LET header(sg) ==
                          IF sg.err # ""
                          THEN fail(sg.err,
                                    HeaderSet(rt.H, AuthorizationName,
                                              AuthHeaderValue(sg.sig, accessKey,
                                                              credentialScope, c.cr)),
                                    w.readers)
                          ELSE [err |-> "",
                                H |-> HeaderSet(rt.H, AuthorizationName,
                                                AuthHeaderValue(sg.sig, accessKey,
                                                                credentialScope, c.cr)),
                                readers |-> w.readers,
                                hreq |-> ToHttpRequest(req),
                                t |-> rt.t, src |-> rt.src, sets |-> rt.sets + 1,
                                sts |-> stringToSign, cr |-> c.cr]
                    IN  header(SignStringToSign(stringToSign, secretKey))
              IN  IF c.err # "" THEN fail(c.err, rt.H, w.readers)
                  ELSE install(StringToSign(c.cr.CanonicalRequest, credentialScope, rt.t))
            written(w) ==
              IF w.err # "" THEN fail(w.err, rt.H, w.readers)
              ELSE signed(w, CanonicalRequest(w.out),
                          CredentialScope(rt.t, regionName, serviceName))
        IN  IF rt.err # "" THEN fail(rt.err, H, rdrs)
            ELSE written(write(req, rt.H, rdrs, FALSE))
  IN  timed(ResolveTime(H, nowT))

\* part_001:44  Sign on request req with header map H:
\* [err, H, readers, hreq, t, src, sets, sts, cr]
Sign(req, H, rdrs, nowT, accessKey, secretKey, regionName, serviceName) ==
  LET timed(rt) ==
        LET fail(e, h, rs) ==
              [err |-> e, H |-> h, readers |-> rs, hreq |-> NilRequest, t |-> rt.t,
               src |-> rt.src, sets |-> rt.sets, sts |-> <<>>, cr |-> NilCR]
            signed(w, c, credentialScope) ==
              LET install(stringToSign) ==
                    LET header(sg) ==
                          IF sg.err # "" THEN fail(sg.err, rt.H, w.readers)
                          ELSE [err |-> "",
                                H |-> HeaderSet(rt.H, AuthorizationName,
                                                AuthHeaderValue(sg.sig, accessKey,
                                                                credentialScope, c.cr)),
                                readers |-> w.readers,
                                hreq |-> ToHttpRequest(req),
                                t |-> rt.t, src |-> rt.src, sets |-> rt.sets + 1,
                                sts |-> stringToSign, cr |-> c.cr]
                    IN  header(SignStringToSign(stringToSign, secretKey))
              IN  IF c.err # "" THEN fail(c.err, rt.H, w.readers)
                  ELSE install(StringToSign(c.cr.CanonicalRequest, credentialScope, rt.t))
            written(w) ==
              IF w.err # "" THEN fail(w.err, rt.H, w.readers)
              ELSE signed(w, CanonicalRequest(w.out),
                          CredentialScope(rt.t, regionName, serviceName))
        IN  IF rt.err # "" THEN fail(rt.err, H, rdrs)
            ELSE written(write(req, rt.H, rdrs, FALSE))
  IN  timed(ResolveTime(H, nowT))

(***************************************************************************)
(* Package auth: credentials from the environment.  The environment maps  *)
(* the names that are set to their values; a value may be empty.           *)
(***************************************************************************)
AWS_ACCESS_KEY_ID == "AWS_ACCESS_KEY_ID"
AWS_SECRET_ACCESS_KEY == "AWS_SECRET_ACCESS_KEY"

\* a nil *Credentials
NilCredentials == [nil |-> TRUE, AccessKey |-> <<>>, SecretKey |-> <<>>]

\* os.Getenv(name): the value, empty when the name is not set
Getenv(env, name) == IF name \in DOMAIN env THEN env[name] ELSE <<>>

\* EnvCredentials that does not look at the secret key
EnvCredentials_NoSecretCheck(env) ==
  LET get(accessKey, secretKey) ==
        IF accessKey = <<>>
        THEN [cred |-> NilCredentials,
              err |-> "auth.EnvCredentials: Could not find env variable "
                        \o AWS_ACCESS_KEY_ID]
        ELSE [cred |-> [nil |-> FALSE, AccessKey |-> accessKey, SecretKey |-> secretKey],
              err |-> ""]
  IN  get(Getenv(env, AWS_ACCESS_KEY_ID), Getenv(env, AWS_SECRET_ACCESS_KEY))

\* auth.go:19  EnvCredentials: [cred, err]
EnvCredentials(env) ==
  LET get(accessKey, secretKey) ==
        IF accessKey = <<>>
        THEN [cred |-> NilCredentials,
              err |-> "auth.EnvCredentials: Could not find env variable "
                        \o AWS_ACCESS_KEY_ID]
        ELSE IF secretKey = <<>>
        THEN [cred |-> NilCredentials,
              err |-> "auth.EnvCredentials: Could not find env variable "
                        \o AWS_SECRET_ACCESS_KEY]
        ELSE [cred |-> [nil |-> FALSE, AccessKey |-> accessKey, SecretKey |-> secretKey],
              err |-> ""]
  IN  get(Getenv(env, AWS_ACCESS_KEY_ID), Getenv(env, AWS_SECRET_ACCESS_KEY))

(***************************************************************************)
(* Package sqs: decoding a response.  A body is the sequence of tokens its *)
(* bytes hold: start tags, end tags and character data.  An object that is *)
(* decoded into is its type and the values of its fields, the fields of    *)
(* the embedded AWSResponse among them.                                    *)
(***************************************************************************)
StartElement(name) == [k |-> "start", v |-> name]
EndElement(name) == [k |-> "end", v |-> name]
CharData(text) == [k |-> "text", v |-> text]

\* <name>text</name>
Leaf(name, text) == <<StartElement(name), CharData(text), EndElement(name)>>

\* <name>children</name>
Element(name, children) == <<StartElement(name)>> \o children \o <<EndElement(name)>>

\* sqs.go:189  the fields of AWSResponse, which carry no xml tag and so are
\* filled from elements of their own names
AWSResponse ==
  { [path |-> <<"Status">>, name |-> "Status", kind |-> "string"],
    [path |-> <<"StatusCode">>, name |-> "StatusCode", kind |-> "int"],
    [path |-> <<"RawResponse">>, name |-> "RawResponse", kind |-> "bytes"] }

RequestIdField ==
  [path |-> <<"ResponseMetadata", "RequestId">>, name |-> "RequestId", kind |-> "string"]

\* sqs.go:207
CreateQueueResponse ==
  [type |-> "CreateQueueResponse", XMLName |-> "CreateQueueResponse",
   fields |-> { [path |-> <<"CreateQueueResult", "QueueUrl">>, name |-> "QueueUrl",
                 kind |-> "string"],
                RequestIdField } \cup AWSResponse]

\* sqs.go:214
DeleteQueueResponse ==
  [type |-> "DeleteQueueResponse", XMLName |-> "DeleteQueueResponse", fields |-> {RequestIdField} \cup AWSResponse]

\* sqs.go:220
GetQueueResponse ==
  [type |-> "GetQueueResponse", XMLName |-> "GetQueueUrlResponse",
   fields |-> { [path |-> <<"GetQueueUrlResult", "QueueUrl">>, name |-> "QueueUrl",
                 kind |-> "string"],
                RequestIdField } \cup AWSResponse]

\* sqs.go:234 and sqs.go:241  ErrorResponse with its ErrorInfo
ErrorResponse ==
  [type |-> "ErrorResponse", XMLName |-> "ErrorResponse",
   fields |-> { [path |-> <<"Error", "Type">>, name |-> "Err.Type", kind |-> "string"],
                [path |-> <<"Error", "Code">>, name |-> "Err.Code", kind |-> "string"],
                [path |-> <<"Error", "Message">>, name |-> "Err.Message", kind |-> "string"],
                [path |-> <<"Error", "Detail">>, name |-> "Err.Detail", kind |-> "string"],
                [path |-> <<"RequestId">>, name |-> "RequestId", kind |-> "string"] }
              \cup AWSResponse]

GoodShapes == {CreateQueueResponse, DeleteQueueResponse, GetQueueResponse}

\* the zero value of a field
ZeroValue(kind) ==
  CASE kind = "string" -> ""
    [] kind = "int" -> 0
    [] OTHER -> <<>>

\* &T{}: a new object of the shape
NewObject(shape) ==
  [shape |-> shape,
   f |-> [n \in {fd.name : fd \in shape.fields} |->
            ZeroValue((CHOOSE fd \in shape.fields : fd.name = n).kind)]]

\* the numerals the bodies hold
Numerals == [text \in {"200", "400"} |-> IF text = "200" THEN 200 ELSE 400]

\* the value character data gives a field of the kind: [v, err]
FieldValue(kind, text) ==
  CASE kind = "string" -> [v |-> text, err |-> ""]
    [] kind = "int" ->
         IF text \in DOMAIN Numerals
         THEN [v |-> Numerals[text], err |-> ""]
         ELSE [v |-> 0, err |-> "strconv.ParseInt: parsing: invalid syntax"]
    [] OTHER -> [v |-> <<CharData(text)>>, err |-> ""]

\* the elements of the root, read in order into the fields whose paths they
\* have; what is read before an error stays in the object: [obj, err]
RECURSIVE unmarshalPath(_, _, _, _)
unmarshalPath(body, i, path, obj) ==
  IF i > Len(body)
  THEN [obj |-> obj, err |-> "XML syntax error: unexpected EOF"]
  ELSE
    LET tok(t) ==
          IF t.k = "start" THEN unmarshalPath(body, i + 1, Append(path, t.v), obj)
          ELSE IF t.k = "text" THEN unmarshalPath(body, i + 1, path, obj)
          ELSE IF t.v # path[Len(path)]
          THEN [obj |-> obj, err |-> "XML syntax error: element closed by another"]
          ELSE IF Len(path) = 1 THEN [obj |-> obj, err |-> ""]
          ELSE
            LET fds == {fd \in obj.shape.fields : fd.path = Tail(path)}
                text == IF body[i - 1].k = "text" THEN body[i - 1].v ELSE ""
                up == SubSeq(path, 1, Len(path) - 1)
                put(fd, val) ==
                  IF val.err # "" THEN [obj |-> obj, err |-> val.err]
                  ELSE unmarshalPath(body, i + 1, up,
                                     [obj EXCEPT !.f[fd.name] = val.v])
                one(fd) == put(fd, FieldValue(fd.kind, text))
            IN  IF fds = {} THEN unmarshalPath(body, i + 1, up, obj)
                ELSE one(CHOOSE fd \in fds : TRUE)
    IN  tok(body[i])

\* xml.Unmarshal(body, obj): [obj, err]
Unmarshal(body, obj) ==
  LET starts == {i \in 1..Len(body) : body[i].k = "start"}
      first == CHOOSE i \in starts : \A j \in starts : i <= j
  IN  IF starts = {} THEN [obj |-> obj, err |-> "EOF"]
      ELSE IF body[first].v # obj.shape.XMLName
      THEN [obj |-> obj,
            err |-> "expected element type <" \o obj.shape.XMLName
                      \o "> but have <" \o body[first].v \o ">"]
      ELSE unmarshalPath(body, first + 1, <<body[first].v>>, obj)

\* an error value: nil, an error of reading, the known error object or the
\* error unmarshalResponse makes
NilError == [kind |-> "nil", msg |-> <<>>]

\* sqs.go:192, sqs.go:196, sqs.go:200  SetRawResponse, SetStatus, SetStatusCode
SetResponse(obj, body, resp) ==
  [obj EXCEPT !.f["RawResponse"] = body,
              !.f["Status"] = resp.Status,
              !.f["StatusCode"] = resp.StatusCode]

\* sqs.go:246  ErrorResponse.Error()
ErrorText(e) ==
  <<"sqs.ErrorResponse Type: ", e.f["Err.Type"], ", Code: ", e.f["Err.Code"],
    " Message: ", e.f["Err.Message"]>>

\* sqs.go:146  unmarshalResponse: [err, resp, goodResponse, knownErrResponse]
unmarshalResponse(resp, goodResponse, knownErrResponse) ==
  LET closed == [resp EXCEPT !.Body.closed = TRUE]
      known(body, good, res) ==
        IF res.err = ""
        THEN [err |-> [kind |-> "known",
                       msg |-> ErrorText(SetResponse(res.obj, body, resp))],
              resp |-> closed, goodResponse |-> good,
              knownErrResponse |-> SetResponse(res.obj, body, resp)]
        ELSE [err |-> [kind |-> "generic",
                       msg |-> <<"sqs.unmarshalResponse: Unable to unmarshal body data to either ",
                                 "*sqs." \o good.shape.type, " or ",
                                 "*sqs." \o res.obj.shape.type,
                                 ", Status: ", resp.Status, ", body: ", body>>],
              resp |-> closed, goodResponse |-> good, knownErrResponse |-> res.obj]
      good(body, res) ==
        IF res.err = ""
        THEN [err |-> NilError, resp |-> closed,
              goodResponse |-> SetResponse(res.obj, body, resp),
              knownErrResponse |-> knownErrResponse]
        ELSE known(body, res.obj, Unmarshal(body, knownErrResponse))
  IN  IF resp.Body.err # ""
      THEN [err |-> [kind |-> "read", msg |-> <<resp.Body.err>>], resp |-> closed,
            goodResponse |-> goodResponse, knownErrResponse |-> knownErrResponse]
      ELSE good(resp.Body.data, Unmarshal(resp.Body.data, goodResponse))

(***************************************************************************)
(* The state: the heaps, the caller's handles, the snapshot, the clock and *)
(* a record of the last call (its arguments, the state it started from and *)
(* what it returned).                                                      *)
(***************************************************************************)
VARIABLES
  readers,  \* heap of bytes.Reader objects
  hmaps,    \* heap of http.Header maps
  reqs,     \* heap of http.Request objects
  src,      \* the body source the caller holds
  r,        \* the http.Request the caller holds
  rreq,     \* the ReusableRequest: the http.Request it embeds, 0 before construction
  pc,       \* "start", then "ready" (constructed) or "failed" (constructor error)
  ctor,     \* the constructor that built the snapshot
  now,      \* the wall clock
  signs,    \* calls of Sign so far
  writes,   \* calls of Write/WriteProxy so far
  arg,      \* the arguments the caller holds for a call of a package function
  last      \* the last call

vars == <<readers, hmaps, reqs, src, r, rreq, pc, ctor, now, signs, writes, arg, last>>

\* the body tokens a source may hold
BodyData(n) == [i \in 1..n |-> "b" \o ToString(i)]

SrcKinds == {"nil", "BytesReader", "ReusableBody", "Other", "Failing"}

Methods == {<<"GET">>}

\* http://host.foo.com/?foo=Zoo&foo=aha (part_000:157)
GoodURL ==
  <<"http", ":", "/", "/", "host.foo.com", "/", "?",
    "foo", "=", "Zoo", "&", "foo", "=", "aha">>
BadURL == <<":", "/", "/", "host.foo.com">>
Urls == {GoodURL, BadURL}

Garbage == <<"date", " ", "goes", " ", "here">>
DateValues == {FormatRFC1123(At(0)), Garbage, <<>>}
\* an x-amz-date value in UTC, one in the local zone whose calendar day is not
\* the UTC day of its instant, one that is no timestamp, none
ZonedStamp == Now(TicksPerDay - LocalZone)
AmzDateValues ==
  {FormatAmznDate(At(MaxTime)), FormatAmznDate(ZonedStamp), Garbage, <<>>}

\* an Authorization value the caller may have put on the request before Sign
StaleAuthorization == <<"stale">>

AccessKeys == {<<"AKIDEXAMPLE">>, <<"AKIDOTHER">>}
SecretKey == <<"wJalrXUtnFEMI/K7MDENG+bPxRfiCYEXAMPLEKEY">>
GoodRegion == <<"us-east-1">>
BadRegion == <<"us", "/", "east">>
Service == <<"host">>

\* the (accessKey, regionName) pairs Sign is called with
SignInputs ==
  {<<a, GoodRegion>> : a \in AccessKeys} \cup {<<<<"AKIDEXAMPLE">>, BadRegion>>}

\* no arguments held
NoArg == [fn |-> "none"]

NoCall ==
  [op |-> "none", err |-> "", out |-> <<>>, key |-> "",
   again |-> FALSE, prevErr |-> "", prevOut |-> <<>>,
   accessKey |-> <<>>, secretKey |-> <<>>, regionName |-> <<>>, serviceName |-> <<>>,
   preH |-> EmptyHeader, preOut |-> <<>>, preErr |-> "", now |-> 0,
   t |-> At(0), src |-> "", sets |-> 0, sts |-> <<>>, cr |-> NilCR, hreq |-> NilRequest,
   cred |-> NilCredentials, ret |-> NilError, pre |-> <<>>]

\* the snapshot's request object and header map
Req == reqs[rreq]
Hdr == hmaps[reqs[rreq].Header]

Init ==
  /\ \E kind \in SrcKinds, n \in 0..MaxBody, i \in 0..MaxBody :
       /\ i <= n
       /\ kind \in {"nil", "Failing"} => n = 0
       /\ readers = << [s |-> BodyData(n), i |-> i] >>
       /\ src = IF kind = "nil" THEN NilBody ELSE [kind |-> kind, rd |-> 1]
       /\ reqs = << [NewRequest(CHOOSE m \in Methods : TRUE, GoodURL, 1).req EXCEPT
                       !.Body = IF kind = "BytesReader" THEN NilBody
                                ELSE IF kind = "nil" THEN NilBody
                                ELSE [kind |-> kind, rd |-> 1],
                       !.ContentLength = IF kind \in {"ReusableBody", "Other"}
                                         THEN n - i ELSE 0] >>
  /\ hmaps = << EmptyHeader >>
  /\ r = 1
  /\ rreq = 0
  /\ pc = "start"
  /\ ctor = ""
  /\ now = 1
  /\ signs = 0
  /\ writes = 0
  /\ arg = NoArg
  /\ last = NoCall

\* sign4.NewReusableRequest(method, urlString, src)
New(method, urlString) ==
  /\ pc = "start"
  /\ \E a \in {NewReusableRequest(method, urlString, src, reqs, hmaps, readers)} :
         /\ readers' = a.readers
         /\ hmaps' = a.hmaps
         /\ reqs' = a.reqs
         /\ rreq' = a.rreq
         /\ pc' = IF a.err = "" THEN "ready" ELSE "failed"
         /\ last' = [NoCall EXCEPT !.op = "New", !.err = a.err]
  /\ ctor' = "New"
  /\ UNCHANGED <<src, r, now, signs, writes, arg>>

\* sign4.NewReusableRequestFromRequest(r)
From(zeroReadEOF) ==
  /\ pc = "start"
  /\ src.kind # "BytesReader"
  /\ \E a \in {NewReusableRequestFromRequest(r, reqs, readers, zeroReadEOF)} :
         /\ readers' = a.readers
         /\ reqs' = a.reqs
         /\ rreq' = a.rreq
         /\ pc' = IF a.err = "" THEN "ready" ELSE "failed"
         /\ last' = [NoCall EXCEPT !.op = "From", !.err = a.err]
  /\ ctor' = "From"
  /\ UNCHANGED <<hmaps, src, r, now, signs, writes, arg>>

\* the reader the caller still holds: the source it passed to NewReusableRequest,
\* or the Body of the request it passed to NewReusableRequestFromRequest
CallerBody == IF ctor = "From" THEN reqs[r].Body ELSE src

\* the caller reads one byte from the reader it holds
CallerRead ==
  /\ pc = "ready"
  /\ CallerBody.kind \in {"BytesReader", "ReusableBody", "Other"}
  /\ ReaderLen(readers[CallerBody.rd]) > 0
  /\ readers' = [readers EXCEPT ![CallerBody.rd].i = @ + 1]
  /\ last' = [NoCall EXCEPT !.op = "CallerRead"]
  /\ UNCHANGED <<hmaps, reqs, src, r, rreq, pc, ctor, now, signs, writes, arg>>

\* req.Write(w) / req.WriteProxy(w)
Write(usingProxy) ==
  /\ pc = "ready"
  /\ writes < MaxWrites
  /\ \E w \in {write(Req, Hdr, readers, usingProxy)},
        op \in {IF usingProxy THEN "WriteProxy" ELSE "Write"} :
         /\ readers' = w.readers
         /\ last' = [NoCall EXCEPT !.op = op, !.err = w.err, !.out = w.out,
                                   !.again = (last.op = op),
                                   !.prevErr = last.err, !.prevOut = last.out,
                                   !.preH = Hdr]
  /\ writes' = writes + 1
  /\ UNCHANGED <<hmaps, reqs, src, r, rreq, pc, ctor, now, signs, arg>>

\* req.Sign(accessKey, secretKey, regionName, serviceName)
DoSign(accessKey, secretKey, regionName, serviceName) ==
  /\ pc = "ready"
  /\ signs < MaxSigns
  /\ \E g \in {Sign(Req, Hdr, readers, now, accessKey, secretKey, regionName,
                      serviceName)},
        pre \in {write(Req, Hdr, readers, FALSE)} :
         /\ readers' = g.readers
         /\ hmaps' = [hmaps EXCEPT ![Req.Header] = g.H]
         /\ last' = [NoCall EXCEPT
                       !.op = "Sign", !.err = g.err,
                       !.again = (last.op = "Sign"), !.prevErr = last.err,
                       !.prevOut = last.cr.CanonicalRequest,
                       !.accessKey = accessKey, !.secretKey = secretKey,
                       !.regionName = regionName, !.serviceName = serviceName,
                       !.preH = Hdr, !.preOut = pre.out, !.preErr = pre.err,
                       !.now = now, !.t = g.t, !.src = g.src, !.sets = g.sets,
                       !.sts = g.sts, !.cr = g.cr, !.hreq = g.hreq]
  /\ signs' = signs + 1
  /\ UNCHANGED <<reqs, src, r, rreq, pc, ctor, now, writes, arg>>

(***************************************************************************)
(* SpecBody: construction, the caller's reads and serialisation.           *)
(***************************************************************************)
NextBody ==
  \/ \E m \in Methods, u \in Urls : New(m, u)
  \/ \E e \in BOOLEAN : From(e)
  \/ CallerRead
  \/ \E p \in BOOLEAN : Write(p)

SpecBody == Init /\ [][NextBody]_vars

(***************************************************************************)
(* SpecSign: Sign on a snapshot the caller has built with                  *)
(* NewReusableRequest and prepared (headers set, body possibly replaced).  *)
(***************************************************************************)
\* the body the snapshot is built from: none, a bytes.Reader at its start, or
\* a bytes.Reader the caller has read from
BodyShapes == {"nil", "whole", "part"}

\* what the caller sets on the snapshot's header map
UserHeaders ==
  {<<DateName, v>> : v \in DateValues} \cup {<<XAmzDateName, v>> : v \in AmzDateValues}
    \cup {<<AuthorizationName, StaleAuthorization>>}

InitSign ==
  /\ \E shape \in BodyShapes :
       \E body \in {IF shape = "nil" THEN NilBody ELSE [kind |-> "BytesReader", rd |-> 1]},
          a \in {NewReusableRequest(
                   <<"GET">>, GoodURL,
                   IF shape = "nil" THEN NilBody ELSE [kind |-> "BytesReader", rd |-> 1],
                   <<>>, <<>>,
                   IF shape = "nil" THEN <<>>
                   ELSE << [s |-> BodyData(MaxBody),
                            i |-> IF shape = "part" THEN 1 ELSE 0] >>)} :
         /\ src = body
         /\ readers = a.readers
         /\ reqs = a.reqs
         /\ rreq = a.rreq
         /\ hmaps = a.hmaps
  /\ r = 0
  /\ pc = "ready"
  /\ ctor = "New"
  /\ now = 1
  /\ signs = 0
  /\ writes = 0
  /\ arg = NoArg
  /\ last = NoCall

\* the caller's req.Header.Set(name, value), while it prepares the request
SetHeader(name, value) ==
  /\ pc = "ready"
  /\ signs = 0
  /\ hmaps' = [hmaps EXCEPT ![Req.Header] = HeaderSet(@, name, value)]
  /\ hmaps' # hmaps
  /\ last' = [NoCall EXCEPT !.op = "SetHeader"]
  /\ UNCHANGED <<readers, reqs, src, r, rreq, pc, ctor, now, signs, writes, arg>>

\* the caller, preparing the request, replaces its body by a reader that is
\* no ReusableBody
ReplaceBody ==
  /\ pc = "ready"
  /\ signs = 0
  /\ Req.Body.kind # "Other"
  /\ readers' = Append(readers, [s |-> BodyData(1), i |-> 0])
  /\ reqs' = [reqs EXCEPT ![rreq].Body = [kind |-> "Other", rd |-> Len(readers) + 1]]
  /\ last' = [NoCall EXCEPT !.op = "ReplaceBody"]
  /\ UNCHANGED <<hmaps, src, r, rreq, pc, ctor, now, signs, writes, arg>>

\* time passes
Tick ==
  /\ now < MaxClock
  /\ now' = now + 1
  /\ last' = [NoCall EXCEPT !.op = "Tick"]
  /\ UNCHANGED <<readers, hmaps, reqs, src, r, rreq, pc, ctor, signs, writes, arg>>

NextSign ==
  \/ \E h \in UserHeaders : SetHeader(h[1], h[2])
  \/ ReplaceBody
  \/ Tick
  \/ \E a \in SignInputs : DoSign(a[1], SecretKey, a[2], Service)

SpecSign == InitSign /\ [][NextSign]_vars

(***************************************************************************)
(* SpecUse: one owner prepares a snapshot, then serialises and signs it in *)
(* any order.                                                              *)
(***************************************************************************)
NextUse ==
  \/ \E h \in UserHeaders : SetHeader(h[1], h[2])
  \/ ReplaceBody
  \/ Tick
  \/ \E p \in BOOLEAN : Write(p)
  \/ \E a \in SignInputs : DoSign(a[1], SecretKey, a[2], Service)

SpecUse == InitSign /\ [][NextUse]_vars

(***************************************************************************)
(* SpecTwin: two snapshots built from equal arguments and given equal      *)
(* headers are signed with equal credentials, one after the other, while   *)
(* the clock runs.                                                         *)
(***************************************************************************)
\* the header maps the caller prepares: a Date value or none, an x-amz-date
\* value or none
PreparedHeaders ==
  LET set(H, name, value) == IF value = <<>> THEN H ELSE HeaderSet(H, name, value)
  IN  { set(set(EmptyHeader, DateName, d), XAmzDateName, x) :
          d \in DateValues, x \in AmzDateValues }

\* the arguments both Sign calls are given
TwinArgs ==
  { [fn |-> "Sign", accessKey |-> a[1], secretKey |-> SecretKey,
     regionName |-> a[2], serviceName |-> Service] : a \in SignInputs }

InitTwin ==
  /\ arg \in TwinArgs
  /\ \E shape \in BodyShapes, H \in PreparedHeaders :
       \E rd \in {[s |-> BodyData(MaxBody), i |-> IF shape = "part" THEN 1 ELSE 0]} :
         \E one \in {NewReusableRequest(
                        <<"GET">>, GoodURL,
                        IF shape = "nil" THEN NilBody
                        ELSE [kind |-> "BytesReader", rd |-> 1],
                        <<>>, <<>>, <<rd, rd>>)} :
           \E two \in {NewReusableRequest(
                          <<"GET">>, GoodURL,
                          IF shape = "nil" THEN NilBody
                          ELSE [kind |-> "BytesReader", rd |-> 2],
                          one.reqs, one.hmaps, one.readers)} :
             /\ readers = two.readers
             /\ reqs = two.reqs
             /\ hmaps = [k \in DOMAIN two.hmaps |-> H]
             /\ rreq = one.rreq
  /\ src = NilBody
  /\ r = 0
  /\ pc = "ready"
  /\ ctor = "New"
  /\ now = 1
  /\ signs = 0
  /\ writes = 0
  /\ last = NoCall

\* req.Sign(...) on the snapshot at hand, which has not been signed yet
SignTwin ==
  /\ signs = rreq - 1
  /\ DoSign(arg.accessKey, arg.secretKey, arg.regionName, arg.serviceName)

\* the caller goes on to the other snapshot
NextTwinSnapshot ==
  /\ signs = rreq
  /\ rreq < Len(reqs)
  /\ rreq' = rreq + 1
  /\ last' = [NoCall EXCEPT !.op = "NextTwinSnapshot"]
  /\ UNCHANGED <<readers, hmaps, reqs, src, r, pc, ctor, now, signs, writes, arg>>

NextTwin ==
  \/ SignTwin
  \/ NextTwinSnapshot
  \/ Tick

SpecTwin == InitTwin /\ [][NextTwin]_vars

(***************************************************************************)
(* SpecRace: two threads call Write, WriteProxy and Sign on one snapshot   *)
(* with nothing to serialise them.  A call is a sequence of steps, each a  *)
(* library call on the shared request: the check of the body's type, the   *)
(* serialisation of the header, one Read of the body at a time, the        *)
(* deferred Seek, and for Sign the steps before and after write.  pc maps  *)
(* a thread to the call it is in: [at, op, out, n, err, ...].             *)
(***************************************************************************)
Threads == {1, 2}

\* the calls a thread makes
RaceOps == {"Write", "WriteProxy", "Sign"}

\* a thread that has not called yet.  expect is what its call returns when
\* no step of another call falls between its steps; base the readers as
\* they were when no call was in progress; alone whether no other call was
\* in progress at any of its steps; first the cursor at its first Read;
\* H and cur the header map and the cursor when it returned.
NoThread ==
  [at |-> "idle", op |-> "", out |-> <<>>, n |-> 0, err |-> "", t |-> At(0),
   hreq |-> NilRequest, expect |-> [err |-> ""], base |-> <<>>, alone |-> TRUE,
   first |-> 0 - 1, H |-> EmptyHeader, cur |-> 0]

InProgress(t) == pc[t].at \notin {"idle", "done"}

InitRace ==
  /\ \E shape \in BodyShapes, H \in {EmptyHeader,
                                     HeaderSet(EmptyHeader, DateName,
                                               FormatRFC1123(At(0)))} :
       \E a \in {NewReusableRequest(
                   <<"GET">>, GoodURL,
                   IF shape = "nil" THEN NilBody ELSE [kind |-> "BytesReader", rd |-> 1],
                   <<>>, <<>>,
                   IF shape = "nil" THEN <<>>
                   ELSE << [s |-> BodyData(MaxBody),
                            i |-> IF shape = "part" THEN 1 ELSE 0] >>)} :
         /\ src = IF shape = "nil" THEN NilBody ELSE [kind |-> "BytesReader", rd |-> 1]
         /\ readers = a.readers
         /\ reqs = a.reqs
         /\ rreq = a.rreq
         /\ hmaps = [k \in DOMAIN a.hmaps |-> H]
  /\ arg = [fn |-> "Sign", accessKey |-> CHOOSE k \in AccessKeys : TRUE,
            secretKey |-> SecretKey, regionName |-> GoodRegion, serviceName |-> Service]
  /\ r = 0
  /\ pc = [t \in Threads |-> NoThread]
  /\ ctor = "New"
  /\ now = 1
  /\ signs = 0
  /\ writes = 0
  /\ last = NoCall

\* the thread's step returns from its call
Return(rec, e, H, rdrs) ==
  [rec EXCEPT !.at = "done", !.err = e, !.H = H,
              !.cur = IF Req.Body.kind = "nil" THEN 0 ELSE rdrs[Req.Body.rd].i]

\* thread t makes its call: req.Write(w), req.WriteProxy(w) or req.Sign(...)
Begin(t, op) ==
  /\ pc[t].at = "idle"
  /\ IF op = "Sign" THEN signs < MaxSigns /\ signs' = signs + 1 /\ writes' = writes
     ELSE writes < MaxWrites /\ writes' = writes + 1 /\ signs' = signs
  /\ \E quiet \in BOOLEAN, base \in {IF \E u \in Threads : InProgress(u)
                                      THEN (CHOOSE u \in Threads : InProgress(u)) 
                                      ELSE 0} :
       /\ quiet = (base = 0)
       /\ \E b \in {IF quiet THEN readers ELSE pc[base].base} :
            pc' = [u \in Threads |->
                     IF u = t
                     THEN [NoThread EXCEPT
                             !.at = IF op = "Sign" THEN "resolve" ELSE "check",
                             !.op = op, !.base = b, !.alone = quiet,
                             !.expect =
                               IF op = "Sign"
                               THEN Sign(Req, Hdr, b, now, arg.accessKey, arg.secretKey,
                                         arg.regionName, arg.serviceName)
                               ELSE write(Req, Hdr, b, op = "WriteProxy")]
                     ELSE IF InProgress(u) THEN [pc[u] EXCEPT !.alone = FALSE]
                     ELSE pc[u]]
  /\ UNCHANGED <<readers, hmaps, reqs, src, r, rreq, ctor, now, arg, last>>

\* Sign, part_001:46-62: the timestamp, and x-amz-date set when it is the clock's
Resolve(t) ==
  /\ pc[t].at = "resolve"
  /\ \E rt \in {ResolveTime(Hdr, now)} :
       /\ hmaps' = [hmaps EXCEPT ![Req.Header] = rt.H]
       /\ pc' = [pc EXCEPT ![t] = IF rt.err # "" THEN Return(@, rt.err, rt.H, readers)
                                  ELSE [@ EXCEPT !.at = "check", !.t = rt.t]]
  /\ UNCHANGED <<readers, reqs, src, r, rreq, ctor, now, signs, writes, arg, last>>

\* write, part_001:479-482: the check of the body's type
CheckBody(t) ==
  /\ pc[t].at = "check"
  /\ pc' = [pc EXCEPT ![t] =
              IF Req.Body.kind \notin {"nil", "ReusableBody"}
              THEN IF @.op = "Sign" THEN [@ EXCEPT !.at = "authorize",
                                                   !.err = "Not sure body can be reused"]
                   ELSE Return(@, "Not sure body can be reused", Hdr, readers)
              ELSE [@ EXCEPT !.at = "head"]]
  /\ UNCHANGED <<readers, hmaps, reqs, src, r, rreq, ctor, now, signs, writes, arg, last>>

\* Request.Write, part_001:487-491: the request line and the header as they
\* are now; with no body that is all of it
SendHeader(t) ==
  /\ pc[t].at = "head"
  /\ \E text \in {GoRequestWrite(Req, Hdr,
                                 IF Req.Body.kind = "nil" THEN readers
                                 ELSE Drain(readers, Req.Body.rd),
                                 pc[t].op = "WriteProxy").out} :
       pc' = [pc EXCEPT ![t] =
                IF Req.Body.kind # "nil" THEN [@ EXCEPT !.at = "body", !.out = text]
                ELSE IF @.op = "Sign" THEN [@ EXCEPT !.at = "authorize", !.out = text]
                ELSE Return([@ EXCEPT !.out = text], "", Hdr, readers)]
  /\ UNCHANGED <<readers, hmaps, reqs, src, r, rreq, ctor, now, signs, writes, arg, last>>

\* Request.Write: one Read of the body.  The first ContentLength bytes are
\* written, the others counted; at the end of the body the count is
\* compared with ContentLength.
ReadBody(t) ==
  /\ pc[t].at = "body"
  /\ \E rd \in {Req.Body.rd} :
       \E cur \in {readers[rd].i} :
         IF cur < Len(readers[rd].s)
         THEN /\ readers' = [readers EXCEPT ![rd].i = cur + 1]
              /\ pc' = [pc EXCEPT ![t] =
                          [@ EXCEPT !.first = IF @ < 0 THEN cur ELSE @,
                                    !.n = @ + 1,
                                    !.out = IF pc[t].n < Req.ContentLength
                                            THEN @ \o <<readers[rd].s[cur + 1]>>
                                            ELSE @]]
         ELSE /\ readers' = readers
              /\ pc' = [pc EXCEPT ![t] =
                          [@ EXCEPT !.first = IF @ < 0 THEN cur ELSE @,
                                    !.at = "seek",
                                    !.err = IF pc[t].n # Req.ContentLength
                                            THEN "http: Request.ContentLength with Body length"
                                            ELSE ""]]
  /\ UNCHANGED <<hmaps, reqs, src, r, rreq, ctor, now, signs, writes, arg, last>>

\* the return of write without the deferred Seek
Rewind_NoSeek(t) ==
  /\ pc[t].at = "seek"
  /\ readers' = readers
  /\ pc' = [pc EXCEPT ![t] = IF @.op = "Sign" THEN [@ EXCEPT !.at = "authorize"]
                             ELSE Return(@, @.err, Hdr, readers')]
  /\ UNCHANGED <<hmaps, reqs, src, r, rreq, ctor, now, signs, writes, arg, last>>

\* write, part_001:485: the deferred rb.Seek(0, 0)
Rewind(t) ==
  /\ pc[t].at = "seek"
  /\ readers' = Seek0(readers, Req.Body.rd)
  /\ pc' = [pc EXCEPT ![t] = IF @.op = "Sign" THEN [@ EXCEPT !.at = "authorize"]
                             ELSE Return(@, @.err, Hdr, readers')]
  /\ UNCHANGED <<hmaps, reqs, src, r, rreq, ctor, now, signs, writes, arg, last>>

\* Sign, part_001:66-87: the canonical request of what was written, the
\* signature, the Authorization header
Authorize(t) ==
  /\ pc[t].at = "authorize"
  /\ \E c \in {CanonicalRequest(pc[t].out)},
        scope \in {CredentialScope(pc[t].t, arg.regionName, arg.serviceName)} :
       \E sg \in {IF pc[t].err # "" \/ c.err # "" THEN [err |-> "", sig |-> <<>>]
                  ELSE SignStringToSign(
                         StringToSign(c.cr.CanonicalRequest, scope, pc[t].t),
                         arg.secretKey)} :
         IF pc[t].err # "" \/ c.err # "" \/ sg.err # ""
         THEN /\ hmaps' = hmaps
              /\ pc' = [pc EXCEPT ![t] =
                          Return(@, IF @.err # "" THEN @.err
                                    ELSE IF c.err # "" THEN c.err ELSE sg.err,
                                 Hdr, readers)]
         ELSE \E H \in {HeaderSet(Hdr, AuthorizationName,
                                  AuthHeaderValue(sg.sig, arg.accessKey, scope, c.cr))} :
                /\ hmaps' = [hmaps EXCEPT ![Req.Header] = H]
                /\ pc' = [pc EXCEPT ![t] =
                            Return([@ EXCEPT !.hreq = ToHttpRequest(Req)], "", H, readers)]
  /\ UNCHANGED <<readers, reqs, src, r, rreq, ctor, now, signs, writes, arg, last>>

NextRace ==
  \/ \E t \in Threads, op \in RaceOps : Begin(t, op)
  \/ \E t \in Threads : Resolve(t)
  \/ \E t \in Threads : CheckBody(t)
  \/ \E t \in Threads : SendHeader(t)
  \/ \E t \in Threads : ReadBody(t)
  \/ \E t \in Threads : Rewind(t)
  \/ \E t \in Threads : Authorize(t)

SpecRace == InitRace /\ [][NextRace]_vars

(***************************************************************************)
(* SpecNames: Sign with region and service names of every shape.           *)
(***************************************************************************)
\* region names: a usual one, the empty one, one with a '/', one with a
\* newline
RegionNames == {GoodRegion, <<>>, BadRegion, <<"us", LF, "east">>}

\* service names: a usual one, one with a '/', one with a newline
ServiceNames == {Service, <<"s3", "/", "x">>, <<"s3", LF>>}

NextNames ==
  \/ \E h \in UserHeaders : SetHeader(h[1], h[2])
  \/ \E rg \in RegionNames, sv \in ServiceNames :
       DoSign(CHOOSE a \in AccessKeys : TRUE, SecretKey, rg, sv)

SpecNames == InitSign /\ [][NextNames]_vars

(***************************************************************************)
(* SpecCanonical: CanonicalRequest on a request text the caller holds.     *)
(***************************************************************************)
ReqMethods == {<<"GET">>, <<"post">>}

\* request targets in origin form, with their paths and queries
OriginTargets ==
  { <<"/">>,
    <<"/", "?", "foo", "=", "Zoo", "&", "foo", "=", "aha">>,
    <<"/", "a", "/", ".", "/", "b", "/", ".", ".", "/", "c", "/">>,
    <<"/", "a", "%", "2", "0", "b", "/", "/", "c">>,
    <<"/", ".", ".", "/", "a", "?">>,
    <<"/", "?", "b", "=", "1", "&", "a", "=", "2", "&", "b", "=", "0">>,
    <<"/", "?", "a", "=", "-", "&", "a", "=", "/">>,
    <<"/", "?", "a", "=", "b", "%", "2", "0", "c", "&", "~", "=", "_", ".">>,
    <<"/", "?", "a", "&", "a", "=", "b", "=", "c">> }

\* request targets in absolute form and the asterisk form
OtherTargets ==
  { <<"http", ":", "/", "/", "host.foo.com", "/", "a", "/">>,
    <<"*">> }

\* request targets url.ParseRequestURI rejects
BadTargets ==
  { <<"host.foo.com">>, <<"/", "%", "z", "z">>, <<>> }

\* header blocks: the lines between the request line and the blank line
HeaderBlocks ==
  { <<>>,
    << <<"Host", ":", " ", "host.foo.com">> >>,
    << <<"Host", ":", " ", "host.foo.com">>,
       <<"b", ":", " ", "1">>,
       <<"a", ":", " ", " ", "x", "\t", " ", "y", " ">>,
       <<"junk">>,
       <<"B", ":", "2">> >>,
    << <<"Date", ":", " ", "23", ":", "36">>,
       <<"c", ":", " ", "\"", "p", " ", " ", "q", "\"", " ", " ", "r">>,
       <<"C", ":">>,
       <<"a", ":", "\"", " ", "x", " ">> >> }

\* request bodies: none, one line, two lines
Bodies == { <<>>, <<"b1">>, <<"b1", CRLF, "b2">> }

RECURSIVE JoinLines(_)
\* the lines, each ended by CR LF
JoinLines(ls) == IF ls = <<>> THEN <<>> ELSE Head(ls) \o <<CRLF>> \o JoinLines(Tail(ls))

\* the text of a request as Request.Write lays it out
RequestText(method, target, hlines, body) ==
  method \o <<" ">> \o target \o <<" ", "HTTP/1.1", CRLF>> \o JoinLines(hlines)
    \o <<CRLF>> \o body

\* texts that are no request: the empty text, a request line of two tokens
ShortTexts == { <<>>, <<"GET", " ", "/">>, <<"GET", " ", "/", CRLF, CRLF>> }

\* the arguments of CanonicalRequest: the text, and the parts it was laid out from
CanonicalArgs ==
  { [fn |-> "CanonicalRequest", shape |-> "request",
     req |-> RequestText(m, t, h, b),
     method |-> m, target |-> t, hlines |-> h, body |-> b] :
      m \in ReqMethods, t \in OriginTargets \cup OtherTargets \cup BadTargets,
      h \in HeaderBlocks, b \in Bodies }
  \cup
  { [fn |-> "CanonicalRequest", shape |-> "short", req |-> x,
     method |-> <<>>, target |-> <<>>, hlines |-> <<>>, body |-> <<>>] :
      x \in ShortTexts }

InitCanonical ==
  /\ arg \in CanonicalArgs
  /\ readers = <<>>
  /\ hmaps = <<>>
  /\ reqs = <<>>
  /\ src = NilBody
  /\ r = 0
  /\ rreq = 0
  /\ pc = "start"
  /\ ctor = ""
  /\ now = 1
  /\ signs = 0
  /\ writes = 0
  /\ last = NoCall

\* sign4.CanonicalRequest(arg.req)
CallCanonicalRequest ==
  /\ arg.fn = "CanonicalRequest"
  /\ last.op = "none"
  /\ \E c \in {CanonicalRequest(arg.req)} :
       last' = [NoCall EXCEPT !.op = "CanonicalRequest", !.err = c.err, !.cr = c.cr]
  /\ UNCHANGED <<readers, hmaps, reqs, src, r, rreq, pc, ctor, now, signs, writes, arg>>

NextCanonical == CallCanonicalRequest

SpecCanonical == InitCanonical /\ [][NextCanonical]_vars

(***************************************************************************)
(* SpecTrim: trimAll on a header value the caller holds, and then on its   *)
(* own result.                                                             *)
(***************************************************************************)
\* the characters of a header value: whitespace, the quote, letters
ValueChars == {" ", "\t", "\"", "a", "b"}

\* the header values of at most n characters
ValuesUpTo(n) == UNION {[1..k -> ValueChars] : k \in 0..n}

InitTrim ==
  /\ \E v \in ValuesUpTo(MaxVal) : arg = [fn |-> "trimAll", val |-> v]
  /\ readers = <<>>
  /\ hmaps = <<>>
  /\ reqs = <<>>
  /\ src = NilBody
  /\ r = 0
  /\ rreq = 0
  /\ pc = "start"
  /\ ctor = ""
  /\ now = 1
  /\ signs = 0
  /\ writes = 0
  /\ last = NoCall

\* trimAll(arg.val), and then trimAll of what that call returned
CallTrimAll ==
  /\ arg.fn = "trimAll"
  /\ ~last.again
  /\ \E v \in {IF last.op = "trimAll" THEN last.out ELSE arg.val} :
       last' = [NoCall EXCEPT !.op = "trimAll", !.out = trimAll(v),
                              !.again = (last.op = "trimAll"), !.prevOut = v]
  /\ UNCHANGED <<readers, hmaps, reqs, src, r, rreq, pc, ctor, now, signs, writes, arg>>

NextTrim == CallTrimAll

SpecTrim == InitTrim /\ [][NextTrim]_vars

(***************************************************************************)
(* SpecKey: SignStringToSign and SigningKey on arguments the caller holds. *)
(***************************************************************************)
Secrets == {SecretKey, <<"other", "+", "secret">>}
Regions == {GoodRegion, <<"eu-west-1">>, BadRegion}
Services == {Service, <<"iam">>, <<"us-east-1">>}

\* a canonical request to build strings to sign from
SomeCanonicalRequest == <<"GET", LF, "/", LF, LF, LF, LF>> \o Sha256Hex(<<>>)

\* texts that are no string to sign: the empty text, three lines, five
\* lines, four lines with a scope of three elements
BadStrings ==
  { <<>>,
    <<"AWS4-HMAC-SHA256", LF>> \o FormatAmznDate(At(0)) \o <<LF>>
      \o CredentialScope(At(0), GoodRegion, Service),
    StringToSign(SomeCanonicalRequest, CredentialScope(At(0), GoodRegion, Service), At(0))
      \o <<LF, "x">>,
    StringToSign(SomeCanonicalRequest,
                 FormatYYYYMMDD(At(0)) \o <<"/">> \o GoodRegion \o <<"/">> \o Service, At(0)) }

\* the arguments of SignStringToSign: a string to sign built with
\* StringToSign and CredentialScope from (t, regionName, serviceName), or a
\* text that is none
SignStringArgs ==
  { [fn |-> "SignStringToSign", built |-> TRUE,
     sts |-> StringToSign(SomeCanonicalRequest, CredentialScope(t, rg, sv), t),
     secretKey |-> k, t |-> t, regionName |-> rg, serviceName |-> sv] :
      t \in Times, rg \in Regions, sv \in Services, k \in Secrets }
  \cup
  { [fn |-> "SignStringToSign", built |-> FALSE, sts |-> x,
     secretKey |-> k, t |-> At(0), regionName |-> <<>>, serviceName |-> <<>>] :
      x \in BadStrings, k \in Secrets }

\* the arguments of SigningKey
SigningKeyArgs ==
  { [fn |-> "SigningKey", awsKey |-> k, dateStamp |-> FormatYYYYMMDD(t),
     regionName |-> rg, serviceName |-> sv] :
      k \in Secrets, t \in Times, rg \in Regions, sv \in Services }

InitKey ==
  /\ arg \in SignStringArgs \cup SigningKeyArgs
  /\ readers = <<>>
  /\ hmaps = <<>>
  /\ reqs = <<>>
  /\ src = NilBody
  /\ r = 0
  /\ rreq = 0
  /\ pc = "start"
  /\ ctor = ""
  /\ now = 1
  /\ signs = 0
  /\ writes = 0
  /\ last = NoCall

\* sign4.SignStringToSign(arg.sts, arg.secretKey)
CallSignStringToSign ==
  /\ arg.fn = "SignStringToSign"
  /\ last.op = "none"
  /\ \E g \in {SignStringToSign(arg.sts, arg.secretKey)} :
       last' = [NoCall EXCEPT !.op = "SignStringToSign", !.err = g.err, !.out = g.sig]
  /\ UNCHANGED <<readers, hmaps, reqs, src, r, rreq, pc, ctor, now, signs, writes, arg>>

\* sign4.SigningKey(arg.awsKey, arg.dateStamp, arg.regionName, arg.serviceName):
\* its error is that of signHMAC, which has none on in-memory data
CallSigningKey ==
  /\ arg.fn = "SigningKey"
  /\ last.op = "none"
  /\ last' = [NoCall EXCEPT
                !.op = "SigningKey", !.err = "",
                !.key = SigningKey(arg.awsKey, arg.dateStamp, arg.regionName,
                                   arg.serviceName)]
  /\ UNCHANGED <<readers, hmaps, reqs, src, r, rreq, pc, ctor, now, signs, writes, arg>>

NextKey ==
  \/ CallSignStringToSign
  \/ CallSigningKey

SpecKey == InitKey /\ [][NextKey]_vars

(***************************************************************************)
(* SpecScope: CredentialScope and StringToSign on a time in any zone.      *)
(***************************************************************************)
\* the arguments of CredentialScope
ScopeArgs ==
  { [fn |-> "CredentialScope", t |-> t, regionName |-> rg, serviceName |-> sv] :
      t \in Times, rg \in Regions, sv \in Services }

InitScope ==
  /\ arg \in ScopeArgs
  /\ readers = <<>>
  /\ hmaps = <<>>
  /\ reqs = <<>>
  /\ src = NilBody
  /\ r = 0
  /\ rreq = 0
  /\ pc = "start"
  /\ ctor = ""
  /\ now = 1
  /\ signs = 0
  /\ writes = 0
  /\ last = NoCall

\* scope := sign4.CredentialScope(arg.t, arg.regionName, arg.serviceName),
\* then sign4.StringToSign(canonicalRequest, scope, arg.t)
CallCredentialScope ==
  /\ arg.fn = "CredentialScope"
  /\ last.op = "none"
  /\ \E scope \in {CredentialScope(arg.t, arg.regionName, arg.serviceName)} :
       last' = [NoCall EXCEPT
                  !.op = "CredentialScope", !.out = scope,
                  !.sts = StringToSign(SomeCanonicalRequest, scope, arg.t)]
  /\ UNCHANGED <<readers, hmaps, reqs, src, r, rreq, pc, ctor, now, signs, writes, arg>>

NextScope == CallCredentialScope

SpecScope == InitScope /\ [][NextScope]_vars

(***************************************************************************)
(* SpecEnv: EnvCredentials in an environment the caller sets up.           *)
(***************************************************************************)
\* the names the caller sets, one of them of no concern to the package
EnvNames == {AWS_ACCESS_KEY_ID, AWS_SECRET_ACCESS_KEY, "HOME"}

\* the values the caller gives them: the values of the package's tests, and
\* the empty value
EnvValues == {<<>>, <<"testAccessKey">>, <<"testSecretKey">>}

\* every environment: each name is not set, or set to one of the values
Environments ==
  UNION { [names -> EnvValues] : names \in SUBSET EnvNames }

InitEnv ==
  /\ arg \in { [fn |-> "EnvCredentials", env |-> e] : e \in Environments }
  /\ readers = <<>>
  /\ hmaps = <<>>
  /\ reqs = <<>>
  /\ src = NilBody
  /\ r = 0
  /\ rreq = 0
  /\ pc = "start"
  /\ ctor = ""
  /\ now = 1
  /\ signs = 0
  /\ writes = 0
  /\ last = NoCall

\* os.Setenv(name, value)
Setenv(name, value) ==
  /\ arg.fn = "EnvCredentials"
  /\ arg' = [arg EXCEPT
               !.env = [n \in DOMAIN arg.env \cup {name} |->
                          IF n = name THEN value ELSE arg.env[n]]]
  /\ arg' # arg
  /\ last' = [NoCall EXCEPT !.op = "Setenv"]
  /\ UNCHANGED <<readers, hmaps, reqs, src, r, rreq, pc, ctor, now, signs, writes>>

\* auth.EnvCredentials()
CallEnvCredentials ==
  /\ arg.fn = "EnvCredentials"
  /\ last.op # "EnvCredentials"
  /\ \E c \in {EnvCredentials(arg.env)} :
       last' = [NoCall EXCEPT !.op = "EnvCredentials", !.err = c.err, !.cred = c.cred]
  /\ UNCHANGED <<readers, hmaps, reqs, src, r, rreq, pc, ctor, now, signs, writes, arg>>

NextEnv ==
  \/ \E name \in EnvNames, value \in EnvValues : Setenv(name, value)
  \/ CallEnvCredentials

SpecEnv == InitEnv /\ [][NextEnv]_vars

(***************************************************************************)
(* SpecResponse: unmarshalResponse on a response the caller has received,  *)
(* with the new objects getResults and its callers hand it.                *)
(***************************************************************************)
CreatedBody ==
  Element("CreateQueueResponse",
          Element("CreateQueueResult", Leaf("QueueUrl", "u"))
            \o Element("ResponseMetadata", Leaf("RequestId", "r")))

DeletedBody ==
  Element("DeleteQueueResponse", Element("ResponseMetadata", Leaf("RequestId", "r")))

FailureBody ==
  Element("ErrorResponse",
          Element("Error", Leaf("Type", "Sender") \o Leaf("Code", "InvalidParameterValue"))
            \o Leaf("RequestId", "r"))

\* a body that names the fields of AWSResponse, its status code being text
StatusBody(root, code) == Element(root, Leaf("Status", "x") \o Leaf("StatusCode", code))

ResponseBodies ==
  { <<>>, CreatedBody, DeletedBody, FailureBody,
    Element("html", <<CharData("Service Unavailable")>>),
    SubSeq(CreatedBody, 1, 4),
    SubSeq(StatusBody("CreateQueueResponse", "400"), 1, 4),
    StatusBody("CreateQueueResponse", "400"),
    StatusBody("CreateQueueResponse", "abc"),
    StatusBody("ErrorResponse", "400"),
    StatusBody("ErrorResponse", "abc") }

Responses ==
  { [Status |-> st.s, StatusCode |-> st.c,
     Body |-> [data |-> b, err |-> e, closed |-> FALSE]] :
      st \in { [s |-> "200 OK", c |-> 200], [s |-> "400 Bad Request", c |-> 400] },
      b \in ResponseBodies, e \in {"", "unexpected EOF"} }

InitResponse ==
  /\ arg \in { [fn |-> "unmarshalResponse", resp |-> rs,
                goodResponse |-> NewObject(sh),
                knownErrResponse |-> NewObject(ErrorResponse)] :
                 rs \in Responses, sh \in GoodShapes }
  /\ readers = <<>>
  /\ hmaps = <<>>
  /\ reqs = <<>>
  /\ src = NilBody
  /\ r = 0
  /\ rreq = 0
  /\ pc = "start"
  /\ ctor = ""
  /\ now = 1
  /\ signs = 0
  /\ writes = 0
  /\ last = NoCall

\* unmarshalResponse(httpResp, goodResponse, errResponse)
CallUnmarshalResponse ==
  /\ arg.fn = "unmarshalResponse"
  /\ last.op # "unmarshalResponse"
  /\ \E res \in {unmarshalResponse(arg.resp, arg.goodResponse, arg.knownErrResponse)} :
       /\ arg' = [arg EXCEPT !.resp = res.resp,
                             !.goodResponse = res.goodResponse,
                             !.knownErrResponse = res.knownErrResponse]
       /\ last' = [NoCall EXCEPT !.op = "unmarshalResponse", !.ret = res.err, !.pre = arg]
  /\ UNCHANGED <<readers, hmaps, reqs, src, r, rreq, pc, ctor, now, signs, writes>>

NextResponse == CallUnmarshalResponse

SpecResponse == InitResponse /\ [][NextResponse]_vars

(***************************************************************************)
(* Properties of the snapshot's body.                                      *)
(***************************************************************************)
\* the last call was a Write that directly followed a Write
WroteTwice == last.op = "Write" /\ last.again

\* C3: two consecutive Write calls on a snapshot both succeed and write the
\* same output.
C3_RepeatedWriteIdentical ==
  WroteTwice => last.err = "" /\ last.prevErr = "" /\ last.out = last.prevOut

\* NewReusableRequestFromRequest(r) has succeeded on a request r with a body
FromBody == ctor = "From" /\ pc = "ready" /\ reqs[r].Body.kind # "nil"

\* C8: after NewReusableRequestFromRequest(r) on a request with a body, the
\* snapshot's body and r's body are two distinct buffers with equal content,
\* so that no read through one moves the cursor of the other.
C8_IndependentCopies ==
  FromBody =>
    /\ Req.Body.kind = "ReusableBody"
    /\ reqs[r].Body.kind = "ReusableBody"
    /\ Req.Body.rd # reqs[r].Body.rd
    /\ readers[Req.Body.rd].s = readers[reqs[r].Body.rd].s

\* NewReusableRequest has succeeded on a body source that is not nil
NewBody == ctor = "New" /\ pc = "ready" /\ src.kind # "nil"

\* C9: after NewReusableRequest on a non-nil body source, and whatever the
\* caller then reads from its source, the snapshot's body is a buffer with
\* its cursor at offset 0 that holds ContentLength bytes: the bytes a Write
\* emits.
C9_OwnBufferAtStart ==
  NewBody =>
    /\ Req.Body.kind = "ReusableBody"
    /\ readers[Req.Body.rd].i = 0
    /\ Req.ContentLength = Len(readers[Req.Body.rd].s)

(***************************************************************************)
(* Properties of Sign.  They are stated on the state right after a call:   *)
(* last holds the call's arguments, the header map and the serialisation   *)
(* it started from, and what it returned.                                  *)
(***************************************************************************)
SignReturned == last.op = "Sign"
SignSucceeded == last.op = "Sign" /\ last.err = ""
SignFailed == last.op = "Sign" /\ last.err # ""

\* the values the snapshot holds for a header, none when it has no such header
Values(H, name) ==
  LET values(k) == IF k \in DOMAIN H THEN H[k] ELSE <<>>
  IN  values(CanonicalMIMEHeaderKey(name))

\* the Date and x-amz-date values the call found ("" when there is none)
PreDate == HeaderGet(last.preH, DateName)
PreAmzDate == HeaderGet(last.preH, XAmzDateName)

\* the error of time.Parse
TimeParseError == "time: cannot parse"

\* the lines of the string to sign the call signed
StsLines == Split(last.sts, LF)

\* C1: after a successful Sign the snapshot has one Authorization value, which
\* reads exactly "AWS4-HMAC-SHA256 Credential=<accessKey>/<scope>,
\* SignedHeaders=<list>, Signature=<signature>" with one space after each
\* comma, and the returned request reports the same value.
C1_AuthorizationFormat ==
  SignSucceeded =>
    /\ Len(Values(Hdr, AuthorizationName)) = 1
    /\ Flat(HeaderGet(Hdr, AuthorizationName)) =
         "AWS4-HMAC-SHA256 Credential=" \o Flat(last.accessKey) \o "/"
           \o Flat(FormatYYYYMMDD(UTC(last.t))) \o "/" \o Flat(last.regionName) \o "/"
           \o Flat(last.serviceName) \o "/aws4_request"
           \o ", SignedHeaders=" \o Flat(last.cr.Headers)
           \o ", Signature=" \o Flat(SignStringToSign(last.sts, last.secretKey).sig)
    /\ ~last.hreq.nil
    /\ HeaderGet(hmaps[last.hreq.Header], AuthorizationName)
         = HeaderGet(Hdr, AuthorizationName)

\* C2: when Sign returns an error, the snapshot's Authorization header is as
\* it was before the call (absent if it was absent) and the returned request
\* is nil.
C2_FailedSignKeepsAuthorization ==
  SignFailed =>
    /\ (AuthorizationName \in DOMAIN Hdr) = (AuthorizationName \in DOMAIN last.preH)
    /\ Values(Hdr, AuthorizationName) = Values(last.preH, AuthorizationName)
    /\ last.hreq.nil

\* a Sign whose signature computation failed on a request that an earlier
\* Sign had given an Authorization header
C2_Witness ==
  /\ SignFailed
  /\ last.err = "Expected 4 elements in"
  /\ signs = 2
  /\ Values(last.preH, AuthorizationName) \notin {<<>>, <<StaleAuthorization>>}

\* a Sign that succeeded with the access key AKIDOTHER on a request that
\* already carried an Authorization header
C1_Witness ==
  /\ SignSucceeded
  /\ last.accessKey = <<"AKIDOTHER">>
  /\ Values(last.preH, AuthorizationName) # <<>>

\* the instant Sign is to sign with, by the order Date, x-amz-date, clock
ExpectedTime ==
  IF PreDate # <<>> THEN ParseRFC1123(PreDate).t
  ELSE IF PreAmzDate # <<>> THEN ParseAmznDate(PreAmzDate).t
  ELSE UTC(Now(last.now))

\* C4: Sign takes its timestamp from a non-empty Date header, else from a
\* non-empty x-amz-date header, else from the clock: the source is the first
\* of the three that is there, and a successful Sign signed that instant
\* (the timestamp line and the scope date of its string to sign).
C4_TimestampOrder ==
  SignReturned =>
    /\ last.src = (IF PreDate # <<>> THEN "Date"
                   ELSE IF PreAmzDate # <<>> THEN "x-amz-date" ELSE "clock")
    /\ last.err = "" =>
         /\ last.t = ExpectedTime
         /\ StsLines[2] = FormatAmznDate(UTC(ExpectedTime))
         /\ Split(StsLines[3], "/")[1] = FormatYYYYMMDD(UTC(ExpectedTime))

\* a successful Sign of a request with a Date header and an x-amz-date
\* header of another day, at a clock that shows neither instant
C4_Witness ==
  /\ SignSucceeded
  /\ PreDate = FormatRFC1123(At(0))
  /\ PreAmzDate = FormatAmznDate(At(MaxTime))
  /\ last.now \notin {0, MaxTime}
  /\ FormatYYYYMMDD(At(0)) # FormatYYYYMMDD(At(MaxTime))

\* the names in the SignedHeaders list of an Authorization value
SignedHeaderNames(auth) ==
  LET names(rest) == Split(Cut(rest, 1, Index(rest, ",") - 1), ";")
  IN  names(Cut(auth, Index(auth, "SignedHeaders=") + 1, Len(auth)))

\* Sign found no value of Date and none of x-amz-date
NoTimestampHeader == PreDate = <<>> /\ PreAmzDate = <<>>

\* C5: after a successful Sign of a snapshot with neither a Date nor an
\* x-amz-date value, the snapshot has one x-amz-date value: the current UTC
\* time in the compact format, equal to the timestamp line of the string to
\* sign that was signed; and x-amz-date is one of the SignedHeaders of the
\* installed Authorization value.
C5_ClockStampSigned ==
  (SignSucceeded /\ NoTimestampHeader) =>
    /\ Values(Hdr, XAmzDateName) = <<StsLines[2]>>
    /\ ParseAmznDate(StsLines[2]) = [err |-> "", t |-> UTC(Now(last.now))]
    /\ \E i \in DOMAIN SignedHeaderNames(HeaderGet(Hdr, AuthorizationName)) :
         SignedHeaderNames(HeaderGet(Hdr, AuthorizationName))[i] = <<"x-amz-date">>

\* a successful Sign, after the clock has moved, of a request without
\* timestamp headers
C5_Witness ==
  /\ SignSucceeded
  /\ DateName \notin DOMAIN last.preH
  /\ ~\E k \in DOMAIN last.preH : ToLower(k) = XAmzDateName
  /\ last.now > 1

\* the header values that do not parse in their format
BadDate == PreDate # <<>> /\ ParseRFC1123(PreDate).err # ""
BadAmzDate == PreAmzDate # <<>> /\ ParseAmznDate(PreAmzDate).err # ""

\* C6 as claimed: Sign fails with a time-parse error whenever the Date value
\* or the x-amz-date value does not parse, whatever the other header holds.
C6_AnyBadTimestampFails ==
  (SignReturned /\ (BadDate \/ BadAmzDate)) => last.err = TimeParseError

\* C6 as amended: Sign fails with a time-parse error exactly when the header
\* its timestamp is taken from (a non-empty Date, else a non-empty
\* x-amz-date) does not parse; x-amz-date beside a non-empty Date is not
\* examined; a failed parse signs nothing and writes no header.
C6_BadTimestampSourceFails ==
  SignReturned =>
    /\ (last.err = TimeParseError)
         = (BadDate \/ (PreDate = <<>> /\ BadAmzDate))
    /\ last.err = TimeParseError =>
         last.sts = <<>> /\ Hdr = last.preH /\ last.hreq.nil

\* a Sign that failed on an unparseable x-amz-date, the only timestamp header
C6_Witness ==
  /\ SignFailed
  /\ PreDate = <<>>
  /\ PreAmzDate = Garbage
  /\ last.err = TimeParseError

\* Sign found a Date or an x-amz-date value that gives it a timestamp
TimestampHeaderParses ==
  \/ PreDate # <<>> /\ ParseRFC1123(PreDate).err = ""
  \/ PreDate = <<>> /\ PreAmzDate # <<>> /\ ParseAmznDate(PreAmzDate).err = ""

\* the step-by-step API on the output of Write just before the call:
\* [err, auth], auth the Authorization value when no step fails
StepByStep ==
  LET steps(cr, scope) ==
        LET signed(sg) ==
              IF last.preErr # "" THEN [err |-> last.preErr, auth |-> <<>>]
              ELSE IF cr.err # "" THEN [err |-> cr.err, auth |-> <<>>]
              ELSE IF sg.err # "" THEN [err |-> sg.err, auth |-> <<>>]
              ELSE [err |-> "",
                    auth |-> AuthHeaderValue(sg.sig, last.accessKey, scope, cr.cr)]
        IN  signed(SignStringToSign(
                     StringToSign(cr.cr.CanonicalRequest, scope, ExpectedTime),
                     last.secretKey))
  IN  steps(CanonicalRequest(last.preOut),
            CredentialScope(ExpectedTime, last.regionName, last.serviceName))

\* C7: for a snapshot whose Date or x-amz-date header gives the timestamp t,
\* Sign fails exactly when a step of the step-by-step API fails on the
\* output of Write taken just before the call, and the Authorization value
\* it installs is AuthHeaderValue(SignStringToSign(StringToSign(
\* cr.CanonicalRequest, scope, t), secretKey), accessKey, scope, cr) with
\* cr = CanonicalRequest(that output) and scope = CredentialScope(t, region,
\* service).
C7_SignIsStepByStep ==
  (SignReturned /\ TimestampHeaderParses) =>
    /\ last.err = StepByStep.err
    /\ last.err = "" => Values(Hdr, AuthorizationName) = <<StepByStep.auth>>

\* a successful second Sign of a request with a body and an x-amz-date
\* header, at a clock of another day than the header's
C7_Witness ==
  /\ SignSucceeded
  /\ signs = 2
  /\ PreDate = <<>>
  /\ PreAmzDate = FormatAmznDate(At(MaxTime))
  /\ FormatYYYYMMDD(UTC(Now(last.now))) # FormatYYYYMMDD(At(MaxTime))
  /\ Req.Body.kind = "ReusableBody"

\* the headers of H or of G, apart from the names in except, are the same
\* in both
SameHeadersExcept(H, G, except) ==
  \A k \in (DOMAIN H \cup DOMAIN G) \ {CanonicalMIMEHeaderKey(n) : n \in except} :
    k \in DOMAIN H /\ k \in DOMAIN G /\ H[k] = G[k]

\* C10 as claimed: every Sign call writes the header map exactly once, the
\* Authorization set, and no other header is added, changed or removed.
C10_OneHeaderWrite ==
  SignReturned =>
    /\ last.sets = 1
    /\ Len(Values(Hdr, AuthorizationName)) = 1
    /\ SameHeadersExcept(Hdr, last.preH, {AuthorizationName})

\* C10 as amended: a successful Sign sets Authorization, once; a Sign that
\* finds no Date and no x-amz-date value first sets x-amz-date to the
\* current UTC time, also when it then fails; a failing Sign leaves
\* Authorization as it was; no other header is added, changed or removed.
C10_HeaderWrites ==
  SignReturned =>
    /\ last.sets = (IF NoTimestampHeader THEN 1 ELSE 0) + (IF last.err = "" THEN 1 ELSE 0)
    /\ SameHeadersExcept(Hdr, last.preH, {AuthorizationName, XAmzDateName})
    /\ Values(Hdr, XAmzDateName) =
         (IF NoTimestampHeader THEN <<FormatAmznDate(UTC(Now(last.now)))>>
          ELSE Values(last.preH, XAmzDateName))
    /\ IF last.err = "" THEN Len(Values(Hdr, AuthorizationName)) = 1
       ELSE Values(Hdr, AuthorizationName) = Values(last.preH, AuthorizationName)

\* a Sign that set x-amz-date from the clock on a request with a Date header
\* of no value, and then failed to serialise the request
C10_Witness ==
  /\ SignFailed
  /\ Values(last.preH, DateName) = << <<>> >>
  /\ Values(last.preH, XAmzDateName) = <<>>
  /\ Values(Hdr, XAmzDateName) # <<>>
  /\ last.err = "Not sure body can be reused"

\* the last call was a Sign that directly followed a successful Sign
SignedAgain == last.op = "Sign" /\ last.again /\ last.prevErr = ""

\* the text an Authorization value of access key a begins with
CredentialOf(a) == "AWS4-HMAC-SHA256 Credential=" \o Flat(a) \o "/"

\* text p is the beginning of text v
HasPrefix(v, p) ==
  \E n \in 0..Len(v) : Flat(Cut(v, 1, n)) = p

\* C11: a Sign that follows a successful Sign on the same snapshot, called
\* with a well-formed region, succeeds, and then the snapshot holds exactly
\* one Authorization value, whose Credential field begins with the access
\* key of the second call; the value of the first call is gone.
C11_SecondSignOverwrites ==
  (SignedAgain /\ last.regionName = GoodRegion) =>
    /\ last.err = ""
    /\ Len(Values(Hdr, AuthorizationName)) = 1
    /\ HasPrefix(HeaderGet(Hdr, AuthorizationName), CredentialOf(last.accessKey))
    /\ HeaderGet(Hdr, AuthorizationName) # HeaderGet(last.preH, AuthorizationName)

(***************************************************************************)
(* Properties of CanonicalRequest, stated on the state right after the     *)
(* call: arg holds the request text and the parts it was laid out from,    *)
(* last what the call returned.                                            *)
(***************************************************************************)
CanonicalReturned == last.op = "CanonicalRequest"
CanonicalAccepted == last.op = "CanonicalRequest" /\ last.err = ""

\* the parts of the canonical request of the request text in arg
MethodPart == ToUpper(arg.method)
UriPart == getRawPath(arg.target)
QueryPart == orderAndEncodeUrlValues(Query(AfterQuery(arg.target))).s
HeaderPart == crHeaderMap(<<arg.method>> \o arg.hlines)
HeaderLinesPart ==
  LET entries(hm) ==
        [i \in 1..Len(hm.sortedKeys) |->
           hm.sortedKeys[i] \o <<":">> \o hm.headers[hm.sortedKeys[i]]]
  IN  Join(entries(HeaderPart), <<LF>>)
SignedPart == Join(HeaderPart.sortedKeys, <<";">>)
HashPart == Sha256Hex(arg.body)

\* C12 as claimed: for every accepted input, a request with no header lines
\* included, the canonical request is METHOD, URI, QUERY, HEADERS, an empty
\* line, SIGNED_HEADERS and BODY_HASH laid out as
\* METHOD\nURI\nQUERY\nHEADERS\n\nSIGNED_HEADERS\nBODY_HASH, with no trailing
\* newline, and the Headers field is the SIGNED_HEADERS line.
C12_OneLayout ==
  (CanonicalAccepted /\ arg.shape = "request") =>
    /\ ~last.cr.nil
    /\ last.cr.CanonicalRequest =
         MethodPart \o <<LF>> \o UriPart \o <<LF>> \o QueryPart \o <<LF>>
           \o HeaderLinesPart \o <<LF, LF>> \o SignedPart \o <<LF>> \o HashPart
    /\ last.cr.Headers = SignedPart
    /\ ~HasSuffix(last.cr.CanonicalRequest, LF)

\* C12 as amended: for every accepted input with at least one header line
\* the canonical request is laid out as
\* METHOD\nURI\nQUERY\nHEADERS\n\nSIGNED_HEADERS\nBODY_HASH; for a request
\* with no header lines it has no HEADERS line and is
\* METHOD\nURI\nQUERY\n\nSIGNED_HEADERS\nBODY_HASH with SIGNED_HEADERS empty;
\* it has no trailing newline and the Headers field is the SIGNED_HEADERS
\* line.
C12_Layout ==
  (CanonicalAccepted /\ arg.shape = "request") =>
    /\ ~last.cr.nil
    /\ last.cr.CanonicalRequest =
         MethodPart \o <<LF>> \o UriPart \o <<LF>> \o QueryPart \o <<LF>>
           \o (IF HeaderPart.sortedKeys = <<>> THEN <<>>
               ELSE HeaderLinesPart \o <<LF>>)
           \o <<LF>> \o SignedPart \o <<LF>> \o HashPart
    /\ last.cr.Headers = SignedPart
    /\ ~HasSuffix(last.cr.CanonicalRequest, LF)

\* an accepted request with a query, no header lines and a body of two lines
C12_Witness ==
  /\ CanonicalAccepted
  /\ arg.hlines = <<>>
  /\ QueryPart # <<>>
  /\ arg.body = <<"b1", CRLF, "b2">>
  /\ last.cr.Headers = <<>>

\* the lines of the canonical request returned, its header entries (between
\* the query line and the empty line) and the names of its signed-header list
ResultLines == Split(last.cr.CanonicalRequest, LF)
ResultEntries == Cut(ResultLines, 4, Len(ResultLines) - 3)
ResultSigned == IF last.cr.Headers = <<>> THEN <<>> ELSE Split(last.cr.Headers, ";")

\* a header line is a line "name:value"; its lowercased name, its trimmed value
IsHeaderLine(l) == Index(l, ":") > 0
NameOf(l) == ToLower(Cut(l, 1, Index(l, ":") - 1))
ValueOf(l) == trimAll(Cut(l, Index(l, ":") + 1, Len(l)))

\* the trimmed values of the header lines of lowercased name n, in encounter
\* order, joined by ','
MergedValue(n) ==
  LET named(l) == IsHeaderLine(l) /\ NameOf(l) = n
      joined(ls) == Join([i \in 1..Len(ls) |-> ValueOf(ls[i])], <<",">>)
  IN  joined(SelectSeq(arg.hlines, named))

\* C13: CanonicalRequest signs every header line ("name:value") of the
\* header block: the signed-header list holds exactly the lowercased names
\* of the header lines, each once, in ascending byte-wise order, and the
\* canonical header block has one entry per name, in that same order, whose
\* value is the trimmed values of the lines of that name joined by ',' in
\* encounter order.
C13_AllHeadersSigned ==
  (CanonicalAccepted /\ arg.shape = "request") =>
    /\ {ResultSigned[i] : i \in DOMAIN ResultSigned}
         = {NameOf(arg.hlines[i]) : i \in {j \in DOMAIN arg.hlines : IsHeaderLine(arg.hlines[j])}}
    /\ \A i \in 1..(Len(ResultSigned) - 1) : LessStr(ResultSigned[i], ResultSigned[i + 1])
    /\ Len(ResultEntries) = Len(ResultSigned)
    /\ \A i \in DOMAIN ResultSigned :
         ResultEntries[i] = ResultSigned[i] \o <<":">> \o MergedValue(ResultSigned[i])

\* an accepted request whose header block names b twice in two cases, out
\* of byte-wise order, and whose merged entry is b:1,2
C13_Witness ==
  /\ CanonicalAccepted
  /\ Len(arg.hlines) = 5
  /\ ResultSigned = << <<"a">>, <<"b">>, <<"host">> >>
  /\ ResultEntries[2] = <<"b", ":", "1", ",", "2">>

\* the (key, value) pairs of the request's query, percent-encoded as the
\* package encodes them, in the order of the request
EncodedPairs ==
  LET encoded(vs) == [i \in 1..Len(vs) |-> <<QueryEscape(vs[i][1]), QueryEscape(vs[i][2])>>]
  IN  encoded(Query(AfterQuery(arg.target)))

\* the (key, value) pairs of the canonical query string returned
ResultPairs ==
  LET pairs(ps) == [i \in 1..Len(ps) |->
                      <<SplitN2(ps[i], "=")[1], Cut(ps[i], Index(ps[i], "=") + 1, Len(ps[i]))>>]
  IN  IF ResultLines[3] = <<>> THEN <<>> ELSE pairs(Split(ResultLines[3], "&"))

\* the number of places of sequence q that hold x
Count(q, x) == Cardinality({i \in DOMAIN q : q[i] = x})

\* pair p is not after pair q in the order by key, then by value
PairLeq(p, q) ==
  \/ LessStr(p[1], q[1])
  \/ p[1] = q[1] /\ ~LessStr(q[2], p[2])

\* C14: the canonical query string holds every (key, value) pair of the
\* request's query, duplicates kept, as 'k=v' joined by '&', ordered by
\* percent-encoded key and, among pairs of one key, by percent-encoded
\* value; it is empty when the request has no query.
C14_QueryOrderedByEncoding ==
  (CanonicalAccepted /\ arg.shape = "request") =>
    /\ \A i \in DOMAIN ResultPairs :
         /\ Index(Split(ResultLines[3], "&")[i], "=") > 0
         /\ Count(ResultPairs, ResultPairs[i]) = Count(EncodedPairs, ResultPairs[i])
    /\ Len(ResultPairs) = Len(EncodedPairs)
    /\ \A i \in 1..(Len(ResultPairs) - 1) : PairLeq(ResultPairs[i], ResultPairs[i + 1])
    /\ AfterQuery(arg.target) = <<>> => ResultLines[3] = <<>>

\* the characters percent-encoding leaves as they are: letters, digits,
\* '-', '.', '_' and '~' (a word token is made of letters)
IsUnreserved(c) ==
  \/ c \in DOMAIN CaseIndex
  \/ c \in {"0", "1", "2", "3", "4", "5", "6", "7", "8", "9", "-", ".", "_", "~"}
  \/ (Len(c) > 1 /\ c # CRLF)

\* the two hex digits of the byte of a character that is not unreserved
HexOf(c) == IF c = " " THEN <<"2", "0">> ELSE EscapeTable[c]

RECURSIVE PercentEncoded(_)
\* percent-encoding with a space written as %20
PercentEncoded(s) ==
  IF s = <<>> THEN <<>>
  ELSE (IF IsUnreserved(Head(s)) THEN <<Head(s)>> ELSE <<"%">> \o HexOf(Head(s)))
         \o PercentEncoded(Tail(s))

\* C15: in the canonical query string every key and every value is
\* percent-encoded on its own: unreserved characters stay, every other
\* character is written %XX, and a space is written %20, never '+'.
C15_SpaceIsPercent20 ==
  (CanonicalAccepted /\ arg.shape = "request") =>
    /\ \A i \in DOMAIN ResultPairs :
         \E j \in DOMAIN Query(AfterQuery(arg.target)) :
           ResultPairs[i] = <<PercentEncoded(Query(AfterQuery(arg.target))[j][1]),
                              PercentEncoded(Query(AfterQuery(arg.target))[j][2])>>
    /\ Index(ResultLines[3], "+") = 0

\* the path part of the request target: the text before the first '?'
PathPart == BeforeQuery(arg.target)

\* the segments of a path that are neither empty nor '.' nor '..'
NamedSegments(p) ==
  LET named(sg) == sg \notin {<<>>, <<".">>, <<".", ".">>}
  IN  SelectSeq(Split(p, "/"), named)

\* sequence q is sequence p with some of its places left out
IsSubSeq(q, p) ==
  LET F[i \in 0..Len(q), j \in 0..Len(p)] ==
        IF i = 0 THEN TRUE
        ELSE IF j = 0 THEN FALSE
        ELSE (q[i] = p[j] /\ F[i - 1, j - 1]) \/ F[i, j - 1]
  IN  F[Len(q), Len(p)]

\* C16: the canonical URI is the path part of the request target, as
\* written (no percent-encoding or decoding), lexically cleaned: it has no
\* '.' or '..' segment, ends with '/' whenever the path part does, is '/'
\* for the bare '/', and starts with '/' for every accepted request target,
\* in origin form and in absolute form alike.
C16_CanonicalUriRooted ==
  (CanonicalAccepted /\ arg.shape = "request") =>
    /\ \A i \in DOMAIN Split(ResultLines[2], "/") :
         Split(ResultLines[2], "/")[i] \notin {<<".">>, <<".", ".">>}
    /\ IsSubSeq(NamedSegments(ResultLines[2]), NamedSegments(PathPart))
    /\ HasSuffix(PathPart, "/") => HasSuffix(ResultLines[2], "/")
    /\ PathPart = <<"/">> => ResultLines[2] = <<"/">>
    /\ Head(ResultLines[2]) = "/"

(***************************************************************************)
(* Properties of trimAll, stated on the state right after a call:          *)
(* last.prevOut is the value handed in, last.out the value returned.  A    *)
(* quote character toggles "inside quotes".                                *)
(***************************************************************************)
TrimReturned == last.op = "trimAll"

\* the number of quote characters among the first n characters of v
QuotesBefore(v, n) == Cardinality({j \in 1..n : v[j] = "\""})

\* place i of v is inside a quoted span
InQuote(v, i) == v[i] # "\"" /\ QuotesBefore(v, i - 1) % 2 = 1

\* place i of v holds whitespace outside the quoted spans
OutsideSpace(v, i) == IsSpace(v[i]) /\ ~InQuote(v, i)

\* the quote characters and the characters inside quoted spans, in order
QuotedPart(v) ==
  LET F[i \in 0..Len(v)] ==
        IF i = 0 THEN <<>>
        ELSE IF v[i] = "\"" \/ InQuote(v, i) THEN F[i - 1] \o <<v[i]>> ELSE F[i - 1]
  IN  F[Len(v)]

\* the characters that are not whitespace outside the quoted spans, in order
KeptPart(v) ==
  LET F[i \in 0..Len(v)] ==
        IF i = 0 THEN <<>>
        ELSE IF OutsideSpace(v, i) THEN F[i - 1] ELSE F[i - 1] \o <<v[i]>>
  IN  F[Len(v)]

\* the maximal runs of whitespace outside the quoted spans that have a
\* character of the stripped value before them: the places where they start
InnerRuns(v) ==
  {i \in 2..Len(v) : OutsideSpace(v, i) /\ ~OutsideSpace(v, i - 1)}

\* no whitespace at the start or at the end
Stripped(v) == v = <<>> \/ (~IsSpace(v[1]) /\ ~IsSpace(v[Len(v)]))

\* outside the quoted spans, whitespace is single spaces
SingleSpaced(v) ==
  \A i \in DOMAIN v :
    OutsideSpace(v, i) => v[i] = " " /\ (i > 1 => ~OutsideSpace(v, i - 1))

\* C17 as claimed: trimAll returns a value with no leading or trailing
\* whitespace, in which every maximal run of whitespace outside the quoted
\* spans is exactly one space and every character inside a quoted span, and
\* every quote character, is kept; trimming a trimmed value changes nothing.
C17_TrimKeepsQuoted ==
  TrimReturned =>
    /\ Stripped(last.out)
    /\ SingleSpaced(last.out)
    /\ Cardinality(InnerRuns(last.out)) = Cardinality(InnerRuns(TrimSpace(last.prevOut)))
    /\ KeptPart(last.out) = KeptPart(last.prevOut)
    /\ QuotedPart(last.out) = QuotedPart(last.prevOut)
    /\ last.again => last.out = last.prevOut

\* C17 as amended: as claimed, except that whitespace at the end of the
\* value is stripped also when it stands inside a quoted span that is not
\* closed: the characters inside the quoted spans and the quote characters
\* of the value without its leading and trailing whitespace are kept.
C17_TrimAll ==
  TrimReturned =>
    /\ Stripped(last.out)
    /\ SingleSpaced(last.out)
    /\ Cardinality(InnerRuns(last.out)) = Cardinality(InnerRuns(TrimSpace(last.prevOut)))
    /\ KeptPart(last.out) = KeptPart(TrimSpace(last.prevOut))
    /\ QuotedPart(last.out) = QuotedPart(TrimSpace(last.prevOut))
    /\ last.again => last.out = last.prevOut

\* trimAll called on its own result for a value that ends in whitespace
\* after a quote that is not closed
C17_Witness ==
  /\ TrimReturned
  /\ last.again
  /\ arg.val = <<"\t", "\"", "a", " ">>
  /\ last.out = <<"\"", "a">>

\* the space-separated tokens of the first line of the text in arg
RequestLineTokens == Split(Split(arg.req, CRLF)[1], " ")

\* C18: CanonicalRequest returns an error when its input is empty, when the
\* request line has fewer than 3 space-separated tokens, or when the request
\* target fails to parse; and with an error it returns a nil result, never
\* a partial canonical request.
C18_MalformedIsError ==
  CanonicalReturned =>
    /\ (\/ arg.req = <<>>
        \/ Len(RequestLineTokens) < 3
        \/ (arg.shape = "request" /\ arg.target \in BadTargets)) => last.err # ""
    /\ last.err # "" => last.cr = NilCR
    /\ last.err = "" => ~last.cr.nil

\* a request with header lines and a body whose target has a bad escape
C18_Witness ==
  /\ CanonicalReturned
  /\ last.err # ""
  /\ arg.target = <<"/", "%", "z", "z">>
  /\ Len(arg.hlines) > 1
  /\ arg.body # <<>>

(***************************************************************************)
(* Properties of SignStringToSign and SigningKey, stated on the state      *)
(* right after the call.                                                   *)
(***************************************************************************)
SignStringReturned == last.op = "SignStringToSign"

\* the newline-delimited lines of the string to sign in arg, and the
\* '/'-delimited components of its third line
ArgLines == Split(arg.sts, LF)
ArgScope == IF Len(ArgLines) >= 3 THEN Split(ArgLines[3], "/") ELSE <<>>

\* HMAC-SHA256 of data under key
HMAC(key, data) == signHMAC(key, data)

\* C19: SignStringToSign(sts, secret) returns an error and an empty
\* signature unless sts has exactly 4 lines and its 3rd line has exactly 4
\* '/'-delimited components c1..c4; otherwise it returns
\* hex(HMAC(SigningKey(secret, c1, c2, c3), sts)), so that for a scope built
\* by CredentialScope(t, region, service) the key is
\* SigningKey(secret, UTC date of t, region, service).
C19_SignStringToSign ==
  SignStringReturned =>
    IF Len(ArgLines) # 4 \/ Len(ArgScope) # 4
    THEN last.err # "" /\ last.out = <<>>
    ELSE /\ last.err = ""
         /\ last.out = << Hex(HMAC(SigningKey(arg.secretKey, ArgScope[1], ArgScope[2],
                                              ArgScope[3]), arg.sts)) >>
         /\ arg.built =>
              last.out = << Hex(HMAC(SigningKey(arg.secretKey,
                                                FormatYYYYMMDD(UTC(arg.t)),
                                                arg.regionName, arg.serviceName),
                                     arg.sts)) >>

\* a signature returned for a string to sign built for the last instant of
\* the model, the region eu-west-1 and the service iam
C19_Witness ==
  /\ SignStringReturned
  /\ last.err = ""
  /\ arg.built
  /\ arg.t = At(MaxTime)
  /\ arg.regionName = <<"eu-west-1">>
  /\ arg.serviceName = <<"iam">>
  /\ last.out # <<>>

SigningKeyReturned == last.op = "SigningKey"

\* C20: SigningKey(secret, date, region, service) is
\* HMAC(HMAC(HMAC(HMAC("AWS4"+secret, date), region), service),
\* "aws4_request"), the four steps in that order, and it returns no error.
C20_SigningKeyChain ==
  SigningKeyReturned =>
    /\ last.key = HMAC(HMAC(HMAC(HMAC("AWS4" \o Flat(arg.awsKey), arg.dateStamp),
                                 arg.regionName), arg.serviceName),
                       <<"aws4_request">>)
    /\ last.err = ""

\* a key returned for a region and a service of different names, where one
\* is a service name of the model as well as a region name
C20_Witness ==
  /\ SigningKeyReturned
  /\ arg.regionName = <<"us-east-1">>
  /\ arg.serviceName = <<"iam">>
  /\ arg.awsKey = SecretKey
  /\ last.key # ""

(***************************************************************************)
(* Properties of CredentialScope.                                          *)
(***************************************************************************)
ScopeReturned == last.op = "CredentialScope"

\* the calendar date, as YYYYMMDD, of the UTC day the instant of t falls in
UTCDate(t) == "201109" \o TwoDigits(9 + (t.at \div TicksPerDay))

\* the date a timestamp line starts with: what precedes its T
DateOfStamp(line) == Flat(Cut(line, 1, Index(line, "T") - 1))

\* C21: for a time t in any zone, CredentialScope(t, region, service) is
\* "<date>/<region>/<service>/aws4_request" with <date> the UTC calendar date
\* of t, and <date> is what the timestamp line of StringToSign for the same
\* t starts with; in a successful Sign the signature is made with the key
\* derived from the date of the signed timestamp line.
C21_ScopeDate ==
  /\ ScopeReturned =>
        /\ Flat(last.out) = UTCDate(arg.t) \o "/" \o Flat(arg.regionName) \o "/"
                              \o Flat(arg.serviceName) \o "/aws4_request"
        /\ Len(StsLines) = 4
        /\ DateOfStamp(StsLines[2]) = UTCDate(arg.t)
        /\ Split(StsLines[3], "/")[1] = <<DateOfStamp(StsLines[2])>>
  /\ SignSucceeded =>
        /\ Len(StsLines) = 4
        /\ Split(StsLines[3], "/")[1] = <<DateOfStamp(StsLines[2])>>
        /\ DateOfStamp(StsLines[2]) = UTCDate(last.t)
        /\ SignStringToSign(last.sts, last.secretKey).sig =
             << Hex(HMAC(SigningKey(last.secretKey, <<DateOfStamp(StsLines[2])>>,
                                    last.regionName, last.serviceName),
                         last.sts)) >>

\* the scope of a time whose calendar day in its own zone is not its UTC day
C21_Witness ==
  /\ ScopeReturned
  /\ arg.t.zone # 0
  /\ FormatYYYYMMDD(arg.t) # FormatYYYYMMDD(UTC(arg.t))
  /\ Flat(Split(StsLines[3], "/")[1]) = UTCDate(arg.t)

(***************************************************************************)
(* Properties of a snapshot whose body was replaced.                       *)
(***************************************************************************)
WriteReturned == last.op \in {"Write", "WriteProxy"}

\* the snapshot's body is there and is no *ReusableBody
BodyNotReusable == Req.Body.kind \notin {"nil", "ReusableBody"}

\* C22: Write and WriteProxy on a snapshot whose body is non-nil and no
\* *ReusableBody return an error and write nothing; on a snapshot with a
\* nil body they do not fail; Sign on a snapshot whose body is non-nil and no
\* *ReusableBody returns an error and leaves the Authorization header as it
\* was.
C22_ReplacedBodyRejected ==
  /\ (WriteReturned /\ BodyNotReusable) => (last.err # "" /\ last.out = <<>>)
  /\ (WriteReturned /\ Req.Body.kind = "nil") => (last.err = "" /\ last.out # <<>>)
  /\ (SignReturned /\ BodyNotReusable) =>
        /\ last.err # ""
        /\ last.hreq.nil
        /\ (AuthorizationName \in DOMAIN Hdr) = (AuthorizationName \in DOMAIN last.preH)
        /\ Values(Hdr, AuthorizationName) = Values(last.preH, AuthorizationName)

\* a Sign of a snapshot whose body was replaced, with timestamp headers that
\* parse, after a Write and a WriteProxy of it
C22_Witness ==
  /\ SignReturned
  /\ BodyNotReusable
  /\ TimestampHeaderParses
  /\ writes = MaxWrites
  /\ last.preErr # ""

(***************************************************************************)
(* Properties of two snapshots signed alike.                               *)
(***************************************************************************)
\* Sign has returned on the second snapshot, after it had on the first
BothSigned == Len(reqs) = 2 /\ signs = Len(reqs) /\ SignReturned

\* the header map of snapshot k
HdrOf(k) == hmaps[reqs[k].Header]

\* C23: two snapshots built from the same method, URL and body, holding the
\* same headers with a Date or x-amz-date value among them, and signed with
\* the same access key, secret key, region and service, end with the same
\* Authorization values, whatever the clock shows at either call.
C23_SignDeterministic ==
  (BothSigned /\ arg.fn = "Sign"
     /\ (PreDate # <<>> \/ PreAmzDate # <<>>)) =>
    /\ (AuthorizationName \in DOMAIN HdrOf(1)) = (AuthorizationName \in DOMAIN HdrOf(2))
    /\ Values(HdrOf(1), AuthorizationName) = Values(HdrOf(2), AuthorizationName)

\* both snapshots were signed with success, the second on a later day than
\* the first, and the day of neither call is the day of the timestamp
C23_Witness ==
  /\ BothSigned
  /\ SignSucceeded
  /\ AuthorizationName \in DOMAIN HdrOf(1)
  /\ AuthorizationName \in DOMAIN HdrOf(2)
  /\ last.now = MaxClock
  /\ FormatYYYYMMDD(UTC(last.t)) # FormatYYYYMMDD(UTC(Now(last.now)))

(***************************************************************************)
(* Properties of EnvCredentials, stated on the state right after a call.   *)
(***************************************************************************)
EnvCredentialsReturned == last.op = "EnvCredentials"

\* the name is not set, or set to the empty value
Missing(name) == name \notin DOMAIN arg.env \/ arg.env[name] = <<>>

\* C24: EnvCredentials returns nil credentials and an error when
\* AWS_ACCESS_KEY_ID is unset or empty or AWS_SECRET_ACCESS_KEY is unset or
\* empty, the error naming the access key when that is missing; otherwise it
\* returns no error and credentials holding exactly the two values.  It never
\* returns both credentials and an error.
C24_EnvCredentials ==
  EnvCredentialsReturned =>
    /\ (Missing(AWS_ACCESS_KEY_ID) \/ Missing(AWS_SECRET_ACCESS_KEY)) =>
          (last.cred.nil /\ last.err # "")
    /\ Missing(AWS_ACCESS_KEY_ID) =>
          last.err = "auth.EnvCredentials: Could not find env variable AWS_ACCESS_KEY_ID"
    /\ (~Missing(AWS_ACCESS_KEY_ID) /\ Missing(AWS_SECRET_ACCESS_KEY)) =>
          last.err = "auth.EnvCredentials: Could not find env variable AWS_SECRET_ACCESS_KEY"
    /\ (~Missing(AWS_ACCESS_KEY_ID) /\ ~Missing(AWS_SECRET_ACCESS_KEY)) =>
          /\ last.err = ""
          /\ ~last.cred.nil
          /\ last.cred.AccessKey = arg.env[AWS_ACCESS_KEY_ID]
          /\ last.cred.SecretKey = arg.env[AWS_SECRET_ACCESS_KEY]
    /\ ~(last.err # "" /\ ~last.cred.nil)

\* a call with the access key set and the secret key set to the empty value,
\* as in the package's test of a missing secret key
C24_Witness ==
  /\ EnvCredentialsReturned
  /\ AWS_ACCESS_KEY_ID \in DOMAIN arg.env
  /\ arg.env[AWS_ACCESS_KEY_ID] = <<"testAccessKey">>
  /\ AWS_SECRET_ACCESS_KEY \in DOMAIN arg.env
  /\ arg.env[AWS_SECRET_ACCESS_KEY] = <<>>
  /\ last.cred.nil

(***************************************************************************)
(* Properties of the body cursor.                                          *)
(***************************************************************************)
\* the snapshot's body is a *ReusableBody
BodyReusable == Req.Body.kind = "ReusableBody"

\* C25: when Write, WriteProxy or Sign has returned on a snapshot whose body
\* is a *ReusableBody, with or without an error, the body's cursor is at
\* offset 0, and the body of the request a successful Sign returned reads
\* from its first byte to its last.
C25_CursorAtStart ==
  ((WriteReturned \/ SignReturned) /\ BodyReusable) =>
    /\ readers[Req.Body.rd].i = 0
    /\ SignSucceeded =>
          /\ last.hreq.Body = Req.Body
          /\ Unread(readers[last.hreq.Body.rd]) = readers[last.hreq.Body.rd].s

(***************************************************************************)
(* Properties of a Sign that follows a Sign.                               *)
(***************************************************************************)
\* C26: a Sign that directly follows a successful Sign on the same snapshot
\* and gets as far as the canonical request signs the Authorization header
\* the first call left: authorization is in its signed-header list, its
\* canonical request is not that of the first call, and when it succeeds
\* the Authorization value it installs is not the value it found.
C26_SecondSignSignsAuthorization ==
  (SignedAgain /\ last.cr # NilCR) =>
    /\ \E i \in DOMAIN Split(last.cr.Headers, ";") :
         Split(last.cr.Headers, ";")[i] = <<"authorization">>
    /\ last.cr.CanonicalRequest # last.prevOut
    /\ last.err = "" =>
          HeaderGet(Hdr, AuthorizationName) # HeaderGet(last.preH, AuthorizationName)

\* a second successful Sign with the access key of the first, on a snapshot
\* with a Date header that parses
C26_Witness ==
  /\ SignedAgain
  /\ last.err = ""
  /\ PreDate = FormatRFC1123(At(0))
  /\ HasPrefix(HeaderGet(last.preH, AuthorizationName), CredentialOf(last.accessKey))
  /\ last.prevOut # <<>>

(***************************************************************************)
(* Properties of calls that run at the same time.                          *)
(***************************************************************************)
\* thread t has returned from its call
Returned(t) == pc[t].at = "done"

\* the cursor of the snapshot's body in the readers rdrs
CursorIn(rdrs) == IF Req.Body.kind = "nil" THEN 0 ELSE rdrs[Req.Body.rd].i

\* what thread t got is what its call returns when it runs by itself
AsByItself(t) ==
  /\ pc[t].err = pc[t].expect.err
  /\ pc[t].cur = CursorIn(pc[t].expect.readers)
  /\ IF pc[t].op = "Sign"
     THEN pc[t].H = pc[t].expect.H /\ pc[t].hreq = pc[t].expect.hreq
     ELSE pc[t].out = pc[t].expect.out

PlainName(name) == \A i \in DOMAIN name : name[i] \notin {"/", LF}

\* the errors of SignStringToSign's check of the string to sign
FormatErrors == {"Expected 4 lines in sts", "Expected 4 elements in"}

\* the call got as far as SignStringToSign: the timestamp was there, the
\* request was written and its canonical request made
SigningStageReached ==
  /\ SignReturned
  /\ ResolveTime(last.preH, last.now).err = ""
  /\ last.preErr = ""
  /\ \E c \in {CanonicalRequest(last.preOut)} : c.err = ""

\* C28: with a region and a service name that hold no '/' and no newline,
\* Sign never returns an error of SignStringToSign's check, and the string it
\* signs has 4 lines and a scope of 4 components; with a '/' or a newline in
\* the region or the service name Sign returns an error, that of the check
\* when it gets as far as signing, and leaves the Authorization header as it
\* was.
C28_NamesDecideSigningStage ==
  SignReturned =>
    IF PlainName(last.regionName) /\ PlainName(last.serviceName)
    THEN /\ last.err \notin FormatErrors
         /\ SigningStageReached =>
              /\ last.err = ""
              /\ Len(StsLines) = 4
              /\ Len(Split(StsLines[3], "/")) = 4
    ELSE /\ last.err # ""
         /\ SigningStageReached => last.err \in FormatErrors
         /\ last.hreq.nil
         /\ (AuthorizationName \in DOMAIN Hdr) = (AuthorizationName \in DOMAIN last.preH)
         /\ Values(Hdr, AuthorizationName) = Values(last.preH, AuthorizationName)

\* a Sign with a newline in the service name that got as far as signing, on
\* a snapshot an earlier Sign had given an Authorization header
C28_Witness ==
  /\ SigningStageReached
  /\ PlainName(last.regionName)
  /\ ~PlainName(last.serviceName)
  /\ \E i \in DOMAIN last.serviceName : last.serviceName[i] = LF
  /\ last.err = "Expected 4 lines in sts"
  /\ AuthorizationName \in DOMAIN last.preH

(***************************************************************************)
(* Properties of unmarshalResponse, stated on the state right after a      *)
(* call: last.pre holds the arguments as they were handed over.            *)
(***************************************************************************)
UnmarshalResponseReturned == last.op = "unmarshalResponse"

\* the body decodes as the shape of the object
Decodes(body, obj) == Unmarshal(body, obj).err = ""

\* the raw body, the status and the status code of the object are those of
\* the response
ResponseSetOn(obj) ==
  /\ obj.f["RawResponse"] = last.pre.resp.Body.data
  /\ obj.f["Status"] = last.pre.resp.Status
  /\ obj.f["StatusCode"] = last.pre.resp.StatusCode

\* the raw body, the status and the status code of the object are as in a
\* new object
ResponseNotSetOn(obj) ==
  /\ obj.f["RawResponse"] = <<>>
  /\ obj.f["Status"] = ""
  /\ obj.f["StatusCode"] = 0

\* C29: unmarshalResponse has exactly three outcomes, tried in this order:
\* when the body decodes as the success shape it returns nil with the raw
\* body, status and status code set on the success object; only otherwise,
\* when the body decodes as the known error shape, it returns that error
\* object with the three set on it; only when both fail it returns the
\* generic error.  On either error outcome the three are not set on the
\* success object.
C29_ThreeOutcomes ==
  UnmarshalResponseReturned =>
    LET body == last.pre.resp.Body.data
        good == Decodes(body, last.pre.goodResponse)
        known == Decodes(body, last.pre.knownErrResponse)
    IN  /\ last.ret.kind \in {"nil", "known", "generic"}
        /\ good => (last.ret.kind = "nil" /\ ResponseSetOn(arg.goodResponse))
        /\ (~good /\ known) =>
             /\ last.ret.kind = "known"
             /\ ResponseSetOn(arg.knownErrResponse)
             /\ last.ret.msg = ErrorText(arg.knownErrResponse)
        /\ (~good /\ ~known) => last.ret.kind = "generic"
        /\ last.ret.kind # "nil" => ResponseNotSetOn(arg.goodResponse)

====
